---- MODULE Spec2Model ----
(***************************************************************************)
(* A model of the hoover4 processing pipeline (main_services/processing):   *)
(* the P0 disk scanner, the P1 planner, the P2 plan executor and the P4     *)
(* indexer, as state machines over the append-only tables they write.       *)
(*                                                                         *)
(* Tables are bags of rows (ClickHouse insert_arrow only appends).  A path  *)
(* "/d/b" is the sequence <<"d", "b">> of its components, "/" is << >>.     *)
(* One dataset is modelled, so the collection_dataset column is left out.   *)
(***************************************************************************)
EXTENDS Integers, Sequences, FiniteSets, Bags, TLC

(***************************************************************************)
(* Bounds of the model.                                                     *)
(***************************************************************************)
\* worker crashes (activity attempts that die part-way) in one behaviour
MaxCrashes == 3
\* runs of the scan of one tree (the first scan and its repetitions)
MaxScanRuns == 2
\* blobs of a small blobs table given to the planner
MaxSmallBlobs == 3
\* one-byte blobs of the large blobs table given to the planner
ManyBlobs == 1001
\* pending plans of the large plan table given to ExecutePlans
ManyPlans == 1001
\* levels of containers inside containers in the deepest tree given to ExecutePlans
MaxNesting == 101
\* calls of add_disk_dataset in one behaviour
MaxAddCalls == 3
\* PDFs of every page count up to SmallPdfPages, and one of MaxPdfPages pages
SmallPdfPages == 12
MaxPdfPages == 1500
\* PDFs of up to MaxPdfChunks times 32 MiB
MaxPdfChunks == 5

(***************************************************************************)
(* Program constants.                                                       *)
(***************************************************************************)
SMALL_BLOB_THRESHOLD_BYTES == 600 * 1024
\* RetryPolicy(maximum_attempts=3) of the P0, P1 and P2 activities
maximum_attempts == 3
\* RetryPolicy(maximum_attempts=2) of the P4 activities
index_maximum_attempts == 2
\* compute_plans: the limits of one plan
max_items == 1000
max_bytes == 1000000000
\* ProcessItemsBatched: child workflows started per batch
CONCURRENCY == 32
\* list_pending_plans: LIMIT 1001
LIST_LIMIT == 1001
\* ExecutePlans: plans executed by one run, children per batch, deepest run
PAGE_SIZE == 1000
PLAN_CONCURRENCY == 16
MAX_RECURSIVITY_DEPTH == 100
\* PdfProcessingAndScan: SMALL_PAGES; _compute_pages_per_chunk: 500 pages
SMALL_PAGES == 1000
MAX_CHUNK_PAGES == 500

(***************************************************************************)
(* The file trees that are scanned.  "" is the dataset's tree on disk; the  *)
(* tree "h2" is the temp directory an archive with blob hash h2 (the file   *)
(* /d/c of the disk tree) is unpacked to.  list_disk_folder reads them.     *)
(***************************************************************************)
Containers == {"", "h2"}

\* the unpacked tree has a nested directory /d/e, holding the file /d/e/g
FsDirs(c) == IF c = "" THEN {<<"d">>} ELSE {<<"d">>, <<"d", "e">>}

FsFiles(c) ==
  IF c = ""
    THEN (<<"a">> :> "h1") @@ (<<"d", "b">> :> "h1") @@ (<<"d", "c">> :> "h2")
    ELSE (<<"a">> :> "h3") @@ (<<"d", "e", "g">> :> "h3")

\* the sha3_256 hashes of the contents found in the trees
AllHashes == UNION {{FsFiles(c)[p] : p \in DOMAIN FsFiles(c)} : c \in Containers}

\* size in bytes of the content with sha3_256 h (_compute_hashes_streaming)
BlobSize(h) ==
  CASE h = "h1" -> 6
    [] h = "h2" -> SMALL_BLOB_THRESHOLD_BYTES + 1
    [] OTHER    -> SMALL_BLOB_THRESHOLD_BYTES

Dirname(p) == IF p = << >> THEN << >> ELSE SubSeq(p, 1, Len(p) - 1)

\* list_disk_folder: one level of the folder, directories and regular files
list_disk_folder(c, folder) ==
  [dirs  |-> {d \in FsDirs(c) : Dirname(d) = folder},
   files |-> {p \in DOMAIN FsFiles(c) : Dirname(p) = folder}]

\* one HandleFolders run per folder of a tree; its files are one HandleFiles batch
Nodes == UNION {{<<c, f>> : f \in {<< >>} \cup FsDirs(c)} : c \in Containers}

RootNode(c) == <<c, << >> >>

ChildNodes(n) == {<<n[1], d>> : d \in list_disk_folder(n[1], n[2]).dirs}

VARIABLES
  vfs_files,        \* bag of [container_hash, path, hash]
  vfs_directories,  \* bag of [container_hash, path]
  blobs,            \* bag of [blob_hash, blob_size_bytes, s3_path, stored_in_clickhouse]
  blob_values,      \* bag of [blob_hash, blob_length]
  s3_puts,          \* bag of object keys: one copy per fput_object call
  hf,               \* HandleFolders run of each node
  dirAct,           \* insert_vfs_directories activity of each node
  ing,              \* ingest_files_batch activity of each node
  scanRuns,         \* how many times the scan of each tree was started
  scannedOk,        \* a scan of the tree has completed successfully
  wrote,            \* rows and objects written by each tree's current scan run,
                    \* and whether an earlier scan of the tree had succeeded
  crashes,          \* crashes so far
  processing_plans,         \* bag of [plan_hash, item_hashes, plan_size_bytes]
  processing_plan_hits,     \* bag of [item_hash, plan_hash]
  cp,                       \* the compute_plans activity of a ComputePlans run
  file_types,               \* bag of [hash, extracted_by]
  text_content,             \* bag of [file_hash, extracted_by, page_id]
  processing_errors,        \* bag of [hash, task_name]
  doc_metadata,             \* bag of [file_hash] (search index)
  doc_text_pages,           \* bag of [file_hash, extracted_by, page_id] (search index)
  processing_plan_finished, \* bag of [plan_hash]
  esp,                      \* the ExecuteSinglePlan run
  pib,                      \* its ProcessItemsBatched child
  parse,                    \* the ParseSingleFile child of each item
  idx,                      \* its IndexDatasetPlan child
  ep,                       \* the ExecutePlans runs: the top-level run and its
                            \* chain of continuation and restart children
  epOut,                    \* what the last ended ExecutePlans run gave its caller
  started,                  \* bag of plan hashes: one copy per ExecuteSinglePlan start
  epWorld,                  \* the tree and the plans ExecutePlans is given
  psf,                      \* a ParseSingleFile run: its detectors and handlers
  dataset,                  \* table dataset (bag of rows)
  cli,                      \* the add_disk_dataset call in progress
  wf,                       \* the IngestDiskDataset workflow of each workflow id
  pdf,                      \* a PdfProcessingAndScan run and its split into chunks
  ipp,                      \* index_metadatas: the parent paths of one item
  term_hash,                \* hash_string_to_uint63 on the values in use
  string_term_text_to_id,   \* ClickHouse table
  string_term_id_to_text,   \* ClickHouse table
  gst,                      \* the get_string_term_ids call of each activity
  returned,                 \* every (value, id) a call has returned
  termCalls,                \* calls made so far
  utf,                      \* an insert_text_chunks call on the bytes of a file
  sup,                      \* the supervisor of the worker command: position and locals
  workers,                  \* its list of slots
  procs,                    \* the child processes spawned so far
  clock,                    \* time.time(), in seconds
  exits,                    \* child exits so far
  iq,                       \* an IndexDatasetPlan run and its activity tasks
  dl,                       \* ExecuteSinglePlan at download_plan_files
  plan_dir,                 \* the files in <base>/<dataset>/<plan_hash>
  parsed,                   \* the items a ParseSingleFile child was started for
  bf,                       \* a _batch_files_by_size call
  pg,                       \* a parser writing the text of one file
  page_rows,                \* bag of [extracted_by, page_id]: that file's text_content rows
  fm,                       \* a format_temporal_exception_chain call
  ctr,                      \* ArchiveExtractionAndScan on the blob h2 and its temp directory
  tci                       \* a TextContentIterator and the batches it has yielded

scanVars == <<vfs_files, vfs_directories, blobs, blob_values, s3_puts,
              hf, dirAct, ing, scanRuns, scannedOk, wrote, crashes>>

planVars == <<processing_plans, processing_plan_hits, cp>>

execVars == <<file_types, text_content, processing_errors, doc_metadata,
              doc_text_pages, processing_plan_finished, esp, pib, parse, idx>>

epVars == <<ep, epOut, started, epWorld>>

routerVars == <<psf>>

cliVars == <<dataset, cli, wf>>

pdfVars == <<pdf>>

pathVars == <<ipp>>

termVars == <<term_hash, string_term_text_to_id, string_term_id_to_text, gst,
              returned, termCalls>>

chunkVars == <<utf>>

supVars == <<sup, workers, procs, clock, exits>>

queueVars == <<iq>>

downloadVars == <<dl, plan_dir, parsed>>

midVars == <<pdfVars, pathVars, termVars, chunkVars, supVars, queueVars, downloadVars>>

batchVars == <<bf>>

pageVars == <<pg, page_rows>>

formatVars == <<fm>>

containerVars == <<ctr>>

iterVars == <<tci>>

lateVars == <<batchVars, pageVars, formatVars, containerVars, iterVars>>

moreVars == <<midVars, lateVars>>

early == <<scanVars, planVars, execVars, epVars, routerVars, cliVars>>

notPdf == <<early, pathVars, termVars, chunkVars, supVars, queueVars, downloadVars, lateVars>>

notPath == <<early, pdfVars, termVars, chunkVars, supVars, queueVars, downloadVars, lateVars>>

notTerm == <<early, pdfVars, pathVars, chunkVars, supVars, queueVars, downloadVars, lateVars>>

notChunk == <<early, pdfVars, pathVars, termVars, supVars, queueVars, downloadVars, lateVars>>

notSup == <<early, pdfVars, pathVars, termVars, chunkVars, queueVars, downloadVars, lateVars>>

notQueue == <<early, pdfVars, pathVars, termVars, chunkVars, supVars, downloadVars, lateVars>>

notDownload == <<early, pdfVars, pathVars, termVars, chunkVars, supVars, queueVars, lateVars>>

notBatch == <<early, midVars, pageVars, formatVars, containerVars, iterVars>>

notPages == <<early, midVars, batchVars, formatVars, containerVars, iterVars>>

notFormat == <<early, midVars, batchVars, pageVars, containerVars, iterVars>>

notContainer == <<early, midVars, batchVars, pageVars, formatVars, iterVars>>

notIter == <<early, midVars, batchVars, pageVars, formatVars, containerVars>>

otherVars == <<epVars, routerVars, cliVars, moreVars>>

vars == <<scanVars, planVars, execVars, otherVars>>

Rows(bag) == BagToSet(bag)

AddRows(bag, rows) == bag (+) SetToBag(rows)

IdleDirAct == [pc |-> "idle", attempt |-> 0, existing_paths |-> {}]

IdleIng == [pc |-> "idle", attempt |-> 0, todo_paths |-> {},
            existing_blob_hashes |-> {}, existing_blob_values |-> {},
            uploaded |-> {}]

NoWrites == [vfs |-> 0, blobs |-> 0, values |-> 0, uploads |-> 0, prior_ok |-> FALSE]

IdleCp == [pc |-> "idle", attempt |-> 0, stream |-> << >>, pos |-> 1,
           cur_hashes |-> << >>, cur_bytes |-> 0, planned_items |-> 0]

\* no ComputePlans has run
NothingPlanned ==
  /\ processing_plans = EmptyBag
  /\ processing_plan_hits = EmptyBag
  /\ cp = IdleCp

IdleEsp == [pc |-> "idle", attempt |-> 0, items |-> << >>]

IdlePib == [pc |-> "idle", i |-> 1]

IdleIdx == [pc |-> "idle", plan_hashes |-> {},
            text |-> "idle", text_attempt |-> 0,
            meta |-> "idle", meta_attempt |-> 0]

\* no ExecuteSinglePlan has run
NothingExecuted ==
  /\ file_types = EmptyBag
  /\ text_content = EmptyBag
  /\ processing_errors = EmptyBag
  /\ doc_metadata = EmptyBag
  /\ doc_text_pages = EmptyBag
  /\ processing_plan_finished = EmptyBag
  /\ esp = IdleEsp
  /\ pib = IdlePib
  /\ parse = [h \in AllHashes |-> "idle"]
  /\ idx = IdleIdx

NoWorld == [plans |-> 0, planned |-> TRUE, nesting |-> 0, fragile |-> {}]

\* no ExecutePlans has been submitted
NoExecutor ==
  /\ ep = << >>
  /\ epOut = [ret |-> "none", guard |-> FALSE]
  /\ started = EmptyBag
  /\ epWorld = NoWorld

\* the three detectors of ParseSingleFile, in the order they are combined
detector_names == <<"file", "tika", "magika">>

\* the task ids ParseSingleFile gives its handlers
TaskIds == {"archive_scan", "email_scan", "extract_plaintext_chunks", "pdf_process",
            "parse_image_metadata_and_store", "run_easyocr_and_store",
            "parse_audio_metadata_and_store", "video_process"}

IdlePsf == [pc |-> "idle",
            det |-> [k \in DOMAIN detector_names |-> "idle"],
            answer |-> [k \in DOMAIN detector_names |-> {}],
            k |-> 1, coarse_types |-> {},
            task |-> [t \in TaskIds |-> "none"]]

\* no ParseSingleFile is followed
NoRouter == psf = IdlePsf

\* the dataset names a call can be given, as their characters
Names == {<<"a">>, <<"b">>, <<"B">>, <<"a", "-">>}

\* the workflow id ingest-disk-<name> stands for the name
IdleWf == [n \in Names |-> [status |-> "none", runs |-> 0]]

IdleCli == [pc |-> "idle", dataset_name |-> << >>, path |-> << >>,
            existing |-> FALSE, exit |-> "none", calls |-> 0]

\* no dataset has been added
NoDatasets ==
  /\ dataset = EmptyBag
  /\ cli = IdleCli
  /\ wf = IdleWf

IdlePdf == [pc |-> "idle", size_bytes |-> 0, page_count |-> 0, path |-> "none",
            pages_per_chunk |-> 0, a |-> 1, ranges |-> << >>, chunks |-> << >>]

\* no PdfProcessingAndScan is followed
NoPdf == pdf = IdlePdf

IdleIpp == [pc |-> "idle", file_paths |-> {}, todo |-> {}, item_parent_paths |-> {}]

\* the two activities that intern terms of one field at the same time
Interners == {"chunk1", "chunk2"}

IdleGst == [pc |-> "idle", term_values |-> {}, existing_term_ids |-> << >>,
            remaining_term_values |-> {}, new_term_ids |-> << >>, result |-> << >>]

NoTerms ==
  /\ term_hash = << >>
  /\ string_term_text_to_id = EmptyBag
  /\ string_term_id_to_text = EmptyBag
  /\ gst = [c \in Interners |-> IdleGst]
  /\ returned = {}
  /\ termCalls = 0

IdleUtf == [pc |-> "idle", file |-> << >>, max_bytes |-> 0, data |-> << >>, i |-> 0,
            chunks |-> << >>, text_content |-> << >>]

\* None
NoProc == 0
NoTime == 0 - 1

IdleSup == [pc |-> "idle", k |-> 0, now |-> 0, p |-> NoProc, interrupted |-> "no"]

NoSupervisor ==
  /\ sup = IdleSup
  /\ workers = << >>
  /\ procs = << >>
  /\ clock = 0
  /\ exits = 0

IdleIq == [pc |-> "idle", plan_hashes |-> 0, fut |-> << >>]

IdleDl == [pc |-> "idle", attempt |-> 0, items |-> << >>, stored |-> << >>, k |-> 0]

IdleBf == [pc |-> "idle", files |-> << >>, i |-> 0, batches |-> << >>,
           current |-> << >>, current_bytes |-> 0]

IdlePg == [pc |-> "idle", extracted_by |-> "", texts |-> << >>, k |-> 0,
           page_id |-> 0, total |-> 0]

IdleFm == [pc |-> "idle", cause |-> << >>, temporal |-> << >>, tb |-> << >>,
           cur |-> 0, seen |-> {}, level |-> 0, entries |-> << >>, chained |-> << >>]

IdleCtr == [pc |-> "idle", out_dir |-> "none", base |-> 0]

IdleTci == [pc |-> "idle", rows |-> 0, batch_size |-> 0, o0 |-> 0, t0 |-> 0,
            current_offset |-> 0, total_processed |-> 0,
            queries |-> << >>, batches |-> << >>]

NothingMore ==
  /\ NoPdf /\ ipp = IdleIpp /\ NoTerms /\ utf = IdleUtf /\ NoSupervisor
  /\ iq = IdleIq
  /\ dl = IdleDl
  /\ plan_dir = << >>
  /\ parsed = {}
  /\ bf = IdleBf
  /\ pg = IdlePg
  /\ page_rows = EmptyBag
  /\ fm = IdleFm
  /\ ctr = IdleCtr
  /\ tci = IdleTci

NothingElse == NoExecutor /\ NoRouter /\ NoDatasets /\ NothingMore

\* nothing is stored, nothing runs
InitScan ==
  /\ NothingPlanned
  /\ NothingExecuted
  /\ NothingElse
  /\ vfs_files = EmptyBag
  /\ vfs_directories = EmptyBag
  /\ blobs = EmptyBag
  /\ blob_values = EmptyBag
  /\ s3_puts = EmptyBag
  /\ hf = [n \in Nodes |-> "idle"]
  /\ dirAct = [n \in Nodes |-> IdleDirAct]
  /\ ing = [n \in Nodes |-> IdleIng]
  /\ scanRuns = [c \in Containers |-> 0]
  /\ scannedOk = [c \in Containers |-> FALSE]
  /\ wrote = [c \in Containers |-> NoWrites]
  /\ crashes = 0

(***************************************************************************)
(* P0: HandleFolders, insert_vfs_directories, HandleFiles and               *)
(* ingest_files_batch.                                                      *)
(***************************************************************************)
\* every scan of this repository passes root_path_prefix = ""
root_path_prefix == ""

StartedDirAct == [IdleDirAct EXCEPT !.pc = "query", !.attempt = 1]

StartedIng == [IdleIng EXCEPT !.pc = "q_vfs", !.attempt = 1]

\* (mutant of HFBegin: children are started without inserting the directories)
HFBegin_NoDirs(n) == "spawn"

\* where a HandleFolders run stands once its folder is listed
HFBegin(n) == IF list_disk_folder(n[1], n[2]).dirs # {} THEN "dirs" ELSE "spawn"

Quiet(n) ==
  /\ hf[n] \in {"idle", "done", "failed"}
  /\ dirAct[n].pc \in {"idle", "done", "failed"}
  /\ ing[n].pc \in {"idle", "done", "failed"}

\* A scan of tree c starts: HandleFolders(folder_paths=["/"], container_hash=c).
\* The command line runs the disk scan to its end before plans are executed,
\* and a container is unpacked and scanned while its own blob is parsed, so
\* the two trees of this model are never scanned at the same time.
ScanStart(c) ==
  /\ scanRuns[c] < MaxScanRuns
  /\ \A n \in Nodes : Quiet(n)
  /\ c # "" => scannedOk[""] /\ \E r \in Rows(blobs) : r.blob_hash = c
  /\ scanRuns' = [scanRuns EXCEPT ![c] = @ + 1]
  /\ hf' = [n \in Nodes |->
              IF n[1] # c THEN hf[n]
              ELSE IF n = RootNode(c) THEN HFBegin(n) ELSE "idle"]
  /\ dirAct' = [n \in Nodes |->
              IF n[1] # c THEN dirAct[n]
              ELSE IF n = RootNode(c) /\ HFBegin(n) = "dirs" THEN StartedDirAct
              ELSE IdleDirAct]
  /\ ing' = [n \in Nodes |-> IF n[1] # c THEN ing[n] ELSE IdleIng]
  /\ wrote' = [wrote EXCEPT ![c] = [NoWrites EXCEPT !.prior_ok = scannedOk[c]]]
  /\ UNCHANGED <<planVars, execVars, otherVars>>
  /\ UNCHANGED <<vfs_files, vfs_directories, blobs, blob_values, s3_puts,
                 scannedOk, crashes>>

\* insert_vfs_directories, the query: the paths of dir_paths already present
ExistingDirPaths(c, dir_paths) ==
  {p \in dir_paths : \E r \in Rows(vfs_directories) :
                        r.container_hash = c /\ r.path = p}

DirsQuery(n) ==
  /\ hf[n] = "dirs" /\ dirAct[n].pc = "query"
  /\ LET dir_paths == list_disk_folder(n[1], n[2]).dirs
         existing_paths == ExistingDirPaths(n[1], dir_paths)
     IN IF dir_paths \ existing_paths = {}
          THEN /\ dirAct' = [dirAct EXCEPT ![n] = [IdleDirAct EXCEPT !.pc = "done"]]
               /\ hf' = [hf EXCEPT ![n] = "spawn"]
          ELSE /\ dirAct' = [dirAct EXCEPT ![n].pc = "insert",
                                           ![n].existing_paths = existing_paths]
               /\ hf' = hf
  /\ UNCHANGED <<planVars, execVars, otherVars>>
  /\ UNCHANGED <<vfs_files, vfs_directories, blobs, blob_values, s3_puts, ing,
                 scanRuns, scannedOk, wrote, crashes>>

\* insert_vfs_directories, the insert of the paths not found by the query
DirsInsert(n) ==
  /\ hf[n] = "dirs" /\ dirAct[n].pc = "insert"
  /\ LET to_insert == list_disk_folder(n[1], n[2]).dirs \ dirAct[n].existing_paths
     IN vfs_directories' = AddRows(vfs_directories,
            {[container_hash |-> n[1], path |-> p] : p \in to_insert})
  /\ dirAct' = [dirAct EXCEPT ![n].pc = "return"]
  /\ UNCHANGED <<planVars, execVars, otherVars>>
  /\ UNCHANGED <<vfs_files, blobs, blob_values, s3_puts, hf, ing,
                 scanRuns, scannedOk, wrote, crashes>>

DirsReturn(n) ==
  /\ hf[n] = "dirs" /\ dirAct[n].pc = "return"
  /\ dirAct' = [dirAct EXCEPT ![n] = [IdleDirAct EXCEPT !.pc = "done"]]
  /\ hf' = [hf EXCEPT ![n] = "spawn"]
  /\ UNCHANGED <<planVars, execVars, otherVars>>
  /\ UNCHANGED <<vfs_files, vfs_directories, blobs, blob_values, s3_puts, ing,
                 scanRuns, scannedOk, wrote, crashes>>

\* The worker dies during an attempt of insert_vfs_directories; the activity is
\* retried from its start until maximum_attempts, then HandleFolders fails.
DirsCrash(n) ==
  /\ hf[n] = "dirs" /\ dirAct[n].pc \in {"query", "insert", "return"}
  /\ crashes < MaxCrashes
  /\ crashes' = crashes + 1
  /\ IF dirAct[n].attempt < maximum_attempts
       THEN /\ dirAct' = [dirAct EXCEPT ![n] =
                            [StartedDirAct EXCEPT !.attempt = dirAct[n].attempt + 1]]
            /\ hf' = hf
       ELSE /\ dirAct' = [dirAct EXCEPT ![n] = [IdleDirAct EXCEPT !.pc = "failed"]]
            /\ hf' = [hf EXCEPT ![n] = "failed"]
  /\ UNCHANGED <<planVars, execVars, otherVars>>
  /\ UNCHANGED <<vfs_files, vfs_directories, blobs, blob_values, s3_puts, ing,
                 scanRuns, scannedOk, wrote>>

\* HandleFolders starts its children: a HandleFolders per sub-folder and a
\* HandleFiles (one ingest_files_batch) for the folder's files, all in parallel.
HFSpawn(n) ==
  /\ hf[n] = "spawn"
  /\ hf' = [m \in Nodes |->
              IF m = n THEN "wait"
              ELSE IF m \in ChildNodes(n) THEN HFBegin(m) ELSE hf[m]]
  /\ dirAct' = [m \in Nodes |->
              IF m \in ChildNodes(n) /\ HFBegin(m) = "dirs" THEN StartedDirAct
              ELSE dirAct[m]]
  /\ ing' = [ing EXCEPT ![n] =
              IF list_disk_folder(n[1], n[2]).files # {} THEN StartedIng ELSE IdleIng]
  /\ UNCHANGED <<planVars, execVars, otherVars>>
  /\ UNCHANGED <<vfs_files, vfs_directories, blobs, blob_values, s3_puts,
                 scanRuns, scannedOk, wrote, crashes>>

\* asyncio.gather(*child_futs) returns: every child has completed
HFDone(n) ==
  /\ hf[n] = "wait"
  /\ \A m \in ChildNodes(n) : hf[m] = "done"
  /\ ing[n].pc \in {"idle", "done"}
  /\ hf' = [hf EXCEPT ![n] = "done"]
  /\ scannedOk' = IF n = RootNode(n[1]) THEN [scannedOk EXCEPT ![n[1]] = TRUE]
                  ELSE scannedOk
  /\ UNCHANGED <<planVars, execVars, otherVars>>
  /\ UNCHANGED <<vfs_files, vfs_directories, blobs, blob_values, s3_puts,
                 dirAct, ing, scanRuns, wrote, crashes>>

\* asyncio.gather raises: a child has failed
HFFail(n) ==
  /\ hf[n] = "wait"
  /\ (\E m \in ChildNodes(n) : hf[m] = "failed") \/ ing[n].pc = "failed"
  /\ hf' = [hf EXCEPT ![n] = "failed"]
  /\ UNCHANGED <<planVars, execVars, otherVars>>
  /\ UNCHANGED <<vfs_files, vfs_directories, blobs, blob_values, s3_puts,
                 dirAct, ing, scanRuns, scannedOk, wrote, crashes>>

\* (mutant of ExistingVfsPaths: the duplicate query finds nothing)
ExistingVfsPaths_None(file_paths) == {}

\* ingest_files_batch step 1: the paths of file_paths that some vfs_files row
\* of the dataset already carries (the query does not look at container_hash)
ExistingVfsPaths(file_paths) ==
  {p \in file_paths : \E r \in Rows(vfs_files) : r.path = p}

\* sha3_256 of each path of the batch, without repeats
unique_hashes(c, todo_paths) == {FsFiles(c)[p] : p \in todo_paths}

ExistingBlobHashes(hashes) ==
  {h \in hashes : \E r \in Rows(blobs) : r.blob_hash = h}

ExistingBlobValues(hashes) ==
  {h \in hashes : \E r \in Rows(blob_values) : r.blob_hash = h}

\* the hashes of the batch that had no blobs row when the activity looked
new_blob_hashes(c, a) == unique_hashes(c, a.todo_paths) \ a.existing_blob_hashes

IsSmall(h) == BlobSize(h) <= SMALL_BLOB_THRESHOLD_BYTES

S3Uri(h) == "s3://" \o h

\* the blobs rows built by the loop over new_blob_hashes
BlobRows(c, a) ==
  {[blob_hash |-> h, blob_size_bytes |-> BlobSize(h),
    s3_path |-> IF IsSmall(h) THEN "" ELSE S3Uri(h),
    stored_in_clickhouse |-> IF IsSmall(h) THEN 1 ELSE 0] :
     h \in new_blob_hashes(c, a)}

\* the blob_values rows built by the same loop
BlobValueRows(c, a) ==
  {[blob_hash |-> h, blob_length |-> BlobSize(h)] :
     h \in {x \in new_blob_hashes(c, a) :
              IsSmall(x) /\ x \notin a.existing_blob_values}}

\* (mutant of FinalPath: rows are stored under a prefix the duplicate query
\* does not apply)
FinalPath_Prefixed(prefix, p) == <<"x">> \o p

\* root_path_prefix.rstrip("/") + p, or p when the prefix is empty
FinalPath(prefix, p) == IF prefix # "" THEN <<prefix>> \o p ELSE p

VfsFileRows(c, a) ==
  {[container_hash |-> c, path |-> FinalPath(root_path_prefix, p),
    hash |-> FsFiles(c)[p]] : p \in a.todo_paths}

\* (mutant of UploadsPending: the loop builds the s3 rows without uploading)
UploadsPending_None(c, a) == {}

\* the large new blobs the loop has still to upload
UploadsPending(c, a) ==
  {h \in new_blob_hashes(c, a) : ~IsSmall(h)} \ a.uploaded

IngestQueryVfs(n) ==
  /\ ing[n].pc = "q_vfs"
  /\ LET file_paths == list_disk_folder(n[1], n[2]).files
         todo_paths == file_paths \ ExistingVfsPaths(file_paths)
     IN ing' = [ing EXCEPT ![n] =
                  IF todo_paths = {}
                    THEN [IdleIng EXCEPT !.pc = "done"]
                    ELSE [@ EXCEPT !.pc = "q_blobs", !.todo_paths = todo_paths]]
  /\ UNCHANGED <<planVars, execVars, otherVars>>
  /\ UNCHANGED <<vfs_files, vfs_directories, blobs, blob_values, s3_puts, hf,
                 dirAct, scanRuns, scannedOk, wrote, crashes>>

IngestQueryBlobs(n) ==
  /\ ing[n].pc = "q_blobs"
  /\ ing' = [ing EXCEPT ![n].pc = "q_values",
                        ![n].existing_blob_hashes =
                           ExistingBlobHashes(unique_hashes(n[1], ing[n].todo_paths))]
  /\ UNCHANGED <<planVars, execVars, otherVars>>
  /\ UNCHANGED <<vfs_files, vfs_directories, blobs, blob_values, s3_puts, hf,
                 dirAct, scanRuns, scannedOk, wrote, crashes>>

IngestQueryValues(n) ==
  /\ ing[n].pc = "q_values"
  /\ ing' = [ing EXCEPT ![n].pc = "build",
                        ![n].existing_blob_values =
                           ExistingBlobValues(unique_hashes(n[1], ing[n].todo_paths))]
  /\ UNCHANGED <<planVars, execVars, otherVars>>
  /\ UNCHANGED <<vfs_files, vfs_directories, blobs, blob_values, s3_puts, hf,
                 dirAct, scanRuns, scannedOk, wrote, crashes>>

\* step 4, one large new blob: fput_object
IngestUpload(n, h) ==
  /\ ing[n].pc = "build"
  /\ h \in UploadsPending(n[1], ing[n])
  /\ s3_puts' = AddRows(s3_puts, {h})
  /\ ing' = [ing EXCEPT ![n].uploaded = @ \cup {h}]
  /\ wrote' = [wrote EXCEPT ![n[1]].uploads = @ + 1]
  /\ UNCHANGED <<planVars, execVars, otherVars>>
  /\ UNCHANGED <<vfs_files, vfs_directories, blobs, blob_values, hf,
                 dirAct, scanRuns, scannedOk, crashes>>

\* step 5, first insert: the blobs rows
IngestInsertBlobs(n) ==
  /\ ing[n].pc = "build"
  /\ UploadsPending(n[1], ing[n]) = {}
  /\ blobs' = AddRows(blobs, BlobRows(n[1], ing[n]))
  /\ ing' = [ing EXCEPT ![n].pc = "ins_values"]
  /\ wrote' = [wrote EXCEPT ![n[1]].blobs = @ + Cardinality(BlobRows(n[1], ing[n]))]
  /\ UNCHANGED <<planVars, execVars, otherVars>>
  /\ UNCHANGED <<vfs_files, vfs_directories, blob_values, s3_puts, hf,
                 dirAct, scanRuns, scannedOk, crashes>>

\* step 5, second insert: the blob_values rows
IngestInsertValues(n) ==
  /\ ing[n].pc = "ins_values"
  /\ blob_values' = AddRows(blob_values, BlobValueRows(n[1], ing[n]))
  /\ ing' = [ing EXCEPT ![n].pc = "ins_vfs"]
  /\ wrote' = [wrote EXCEPT
                 ![n[1]].values = @ + Cardinality(BlobValueRows(n[1], ing[n]))]
  /\ UNCHANGED <<planVars, execVars, otherVars>>
  /\ UNCHANGED <<vfs_files, vfs_directories, blobs, s3_puts, hf,
                 dirAct, scanRuns, scannedOk, crashes>>

\* step 7: the vfs_files rows of todo_paths
IngestInsertVfs(n) ==
  /\ ing[n].pc = "ins_vfs"
  /\ vfs_files' = AddRows(vfs_files, VfsFileRows(n[1], ing[n]))
  /\ ing' = [ing EXCEPT ![n].pc = "return"]
  /\ wrote' = [wrote EXCEPT
                 ![n[1]].vfs = @ + Cardinality(VfsFileRows(n[1], ing[n]))]
  /\ UNCHANGED <<planVars, execVars, otherVars>>
  /\ UNCHANGED <<vfs_directories, blobs, blob_values, s3_puts, hf,
                 dirAct, scanRuns, scannedOk, crashes>>

IngestReturn(n) ==
  /\ ing[n].pc = "return"
  /\ ing' = [ing EXCEPT ![n] = [IdleIng EXCEPT !.pc = "done"]]
  /\ UNCHANGED <<planVars, execVars, otherVars>>
  /\ UNCHANGED <<vfs_files, vfs_directories, blobs, blob_values, s3_puts, hf,
                 dirAct, scanRuns, scannedOk, wrote, crashes>>

IngestRunning(n) ==
  ing[n].pc \in {"q_vfs", "q_blobs", "q_values", "build", "ins_values",
                 "ins_vfs", "return"}

\* The worker dies during an attempt of ingest_files_batch; the activity is
\* retried from its start until maximum_attempts, then HandleFiles fails.
IngestCrash(n) ==
  /\ IngestRunning(n)
  /\ crashes < MaxCrashes
  /\ crashes' = crashes + 1
  /\ ing' = [ing EXCEPT ![n] =
               IF ing[n].attempt < maximum_attempts
                 THEN [StartedIng EXCEPT !.attempt = ing[n].attempt + 1]
                 ELSE [IdleIng EXCEPT !.pc = "failed"]]
  /\ UNCHANGED <<planVars, execVars, otherVars>>
  /\ UNCHANGED <<vfs_files, vfs_directories, blobs, blob_values, s3_puts, hf,
                 dirAct, scanRuns, scannedOk, wrote>>

NextScan ==
  \/ \E c \in Containers : ScanStart(c)
  \/ \E n \in Nodes :
       \/ DirsQuery(n) \/ DirsInsert(n) \/ DirsReturn(n) \/ DirsCrash(n)
       \/ HFSpawn(n) \/ HFDone(n) \/ HFFail(n)
       \/ IngestQueryVfs(n) \/ IngestQueryBlobs(n) \/ IngestQueryValues(n)
       \/ (\E h \in AllHashes : IngestUpload(n, h))
       \/ IngestInsertBlobs(n) \/ IngestInsertValues(n) \/ IngestInsertVfs(n)
       \/ IngestReturn(n) \/ IngestCrash(n)

SpecScan == InitScan /\ [][NextScan]_vars

(***************************************************************************)
(* Claims about the scanner (checked under SpecScan).                       *)
(***************************************************************************)
DiskBatchNodes == {<<"", << >> >>, <<"", <<"d">> >>}

BlobRowCount(h) ==
  BagCardinality([r \in {x \in Rows(blobs) : x.blob_hash = h} |-> blobs[r]])

BlobValueCount(h) ==
  BagCardinality([r \in {x \in Rows(blob_values) : x.blob_hash = h} |-> blob_values[r]])

\* how many times the bytes of h were stored: blob_values rows plus uploads
StoreCount(h) == BlobValueCount(h) + CopiesIn(h, s3_puts)

HasInlineValue(r) ==
  /\ r.stored_in_clickhouse = 1
  /\ \E v \in Rows(blob_values) :
        v.blob_hash = r.blob_hash /\ v.blob_length = r.blob_size_bytes

SingleSite(r) == HasInlineValue(r) # (r.s3_path # "")

\* no ingest_files_batch is running and none has failed
IngestSettled == \A n \in Nodes : ing[n].pc \in {"idle", "done"}

\* C3: once every started ingest_files_batch has completed successfully (also
\* after interrupted attempts and retries), every blobs row has exactly one
\* storage site: an inline blob_values row of matching length, or an s3_path.
C3_BlobSingleSite ==
  IngestSettled => \A r \in Rows(blobs) : SingleSite(r)

\* C4: when the two sibling ingest_files_batch activities of the disk scan
\* (batches /a and /d/b,/d/c; /a and /d/b have the same bytes) have both
\* completed without any crash, each hash of the tree has exactly one blobs
\* row and its bytes were stored exactly once.
C4_BlobPutOnceUnderConcurrency ==
  (crashes = 0 /\ scanRuns[""] = 1 /\ \A n \in DiskBatchNodes : ing[n].pc = "done")
    => \A h \in {"h1", "h2"} : BlobRowCount(h) = 1 /\ StoreCount(h) = 1

VfsFileCount(c, p) ==
  BagCardinality([r \in {x \in Rows(vfs_files) : x.container_hash = c /\ x.path = p}
                    |-> vfs_files[r]])

VfsDirCount(c, p) ==
  BagCardinality([r \in {x \in Rows(vfs_directories) :
                            x.container_hash = c /\ x.path = p}
                    |-> vfs_directories[r]])

\* C5: after a successful scan of tree c, every file of the tree has exactly
\* one vfs_files row keyed (c, path), and the hashes those rows reference are
\* the content hashes of the tree.
C5_ScanCompleteness ==
  \A c \in Containers :
    hf[RootNode(c)] = "done" =>
      /\ \A p \in DOMAIN FsFiles(c) : VfsFileCount(c, p) = 1
      /\ {r.hash : r \in {x \in Rows(vfs_files) : x.container_hash = c}}
           = {FsFiles(c)[p] : p \in DOMAIN FsFiles(c)}

\* the case of C5: the archive's tree has been scanned successfully
C5_Witness == hf[RootNode("h2")] = "done"

\* C6: no two vfs_files rows and no two vfs_directories rows share
\* (container_hash, path), in every state (first runs, retries, re-scans).
C6_VfsUniqueness ==
  /\ \A r \in Rows(vfs_files) : VfsFileCount(r.container_hash, r.path) = 1
  /\ \A r \in Rows(vfs_directories) : VfsDirCount(r.container_hash, r.path) = 1

\* a re-scan of the disk tree has completed, after a crash, with both tables filled
C6_Witness ==
  /\ scanRuns[""] = 2 /\ hf[RootNode("")] = "done" /\ crashes > 0
  /\ Rows(vfs_files) # {} /\ Rows(vfs_directories) # {}

\* C7: in every state every vfs_files row references a hash that has a blobs
\* row, and every blobs row with a non-empty s3_path names an uploaded object.
C7_WriteOrder ==
  /\ \A r \in Rows(vfs_files) : \E b \in Rows(blobs) : b.blob_hash = r.hash
  /\ \A b \in Rows(blobs) :
        b.s3_path # "" => \E k \in Rows(s3_puts) : b.s3_path = S3Uri(k)

\* an attempt that follows a crash stands between its blobs insert and its
\* vfs_files insert, with an object-store blob row in the table
C7_Witness ==
  \E n \in Nodes :
    /\ ing[n].pc \in {"ins_values", "ins_vfs"} /\ ing[n].attempt > 1
    /\ \E b \in Rows(blobs) : b.s3_path # ""

\* C8: a scan run that starts after a successful scan of the same tree writes
\* no vfs_files, blobs or blob_values row and uploads nothing.
C8_IdempotentRescan ==
  \A c \in Containers :
    wrote[c].prior_ok =>
      wrote[c].vfs = 0 /\ wrote[c].blobs = 0 /\ wrote[c].values = 0
        /\ wrote[c].uploads = 0

\* a re-scan of each tree has run to its end
C8_Witness ==
  \A c \in Containers : wrote[c].prior_ok /\ hf[RootNode(c)] = "done"

(***************************************************************************)
(* P1: ComputePlans, count_new_blobs and compute_plans.                     *)
(*                                                                         *)
(* The planner is given a blobs table: a small one of up to MaxSmallBlobs   *)
(* blobs with sizes drawn from BlobSizes, or a large one of ManyBlobs       *)
(* one-byte blobs and one blob above max_bytes.  Blob i of a table has the  *)
(* hash BlobName(i).                                                        *)
(***************************************************************************)
BlobSizes == {1, max_bytes \div 2, max_bytes + 1}

BlobName(i) == "b" \o ToString(i)

BlobTables ==
  UNION {[1..n -> BlobSizes] : n \in 0..MaxSmallBlobs}
    \cup {[i \in 1..(ManyBlobs + 1) |-> IF i <= ManyBlobs THEN 1 ELSE max_bytes + 1]}

\* what ingest_files_batch has stored for a file /<hash> of size s with hash h
StoredBlob(h, s) ==
  [blob_hash |-> h, blob_size_bytes |-> s,
   s3_path |-> IF s <= SMALL_BLOB_THRESHOLD_BYTES THEN "" ELSE S3Uri(h),
   stored_in_clickhouse |-> IF s <= SMALL_BLOB_THRESHOLD_BYTES THEN 1 ELSE 0]

InitPlan ==
  /\ NothingPlanned
  /\ NothingExecuted
  /\ NothingElse
  /\ \E t \in BlobTables :
       LET ids == DOMAIN t
           small == {i \in ids : t[i] <= SMALL_BLOB_THRESHOLD_BYTES}
       IN /\ blobs = SetToBag({StoredBlob(BlobName(i), t[i]) : i \in ids})
          /\ blob_values = SetToBag({[blob_hash |-> BlobName(i), blob_length |-> t[i]] :
                                        i \in small})
          /\ s3_puts = SetToBag({BlobName(i) : i \in ids \ small})
          /\ vfs_files = SetToBag({[container_hash |-> "", path |-> <<BlobName(i)>>,
                                    hash |-> BlobName(i)] : i \in ids})
  /\ vfs_directories = EmptyBag
  /\ hf = [n \in Nodes |-> "idle"]
  /\ dirAct = [n \in Nodes |-> IdleDirAct]
  /\ ing = [n \in Nodes |-> IdleIng]
  /\ scanRuns = [c \in Containers |-> 0]
  /\ scannedOk = [c \in Containers |-> FALSE]
  /\ wrote = [c \in Containers |-> NoWrites]
  /\ crashes = 0

PlannedHashes == {r.item_hash : r \in Rows(processing_plan_hits)}

\* count_new_blobs: blobs rows whose hash has no processing_plan_hits row
count_new_blobs ==
  LET planned == PlannedHashes
  IN BagCardinality([b \in {x \in Rows(blobs) : x.blob_hash \notin planned}
                       |-> blobs[b]])

\* ORDER BY blob_size_bytes ASC leaves the order of blobs of equal size to the
\* database: here they come by ascending or by descending hash
TieOrders == {"asc", "desc"}

StreamBefore(order, a, b) ==
  \/ a.blob_size_bytes < b.blob_size_bytes
  \/ /\ a.blob_size_bytes = b.blob_size_bytes
     /\ IF order = "asc" THEN a.i < b.i ELSE a.i > b.i

\* compute_plans, the query: the blobs without a processing_plan_hits row,
\* smallest first
UnplannedStream(order) ==
  LET planned == PlannedHashes
      n == Cardinality(Rows(blobs))
      todo == SelectSeq([i \in 1..n |-> i], LAMBDA i : BlobName(i) \notin planned)
      row(i) == CHOOSE b \in Rows(blobs) : b.blob_hash = BlobName(i)
      rows == [k \in 1..Len(todo) |->
                 [i |-> todo[k], blob_hash |-> BlobName(todo[k]),
                  blob_size_bytes |-> row(todo[k]).blob_size_bytes]]
  IN SortSeq(rows, LAMBDA a, b : StreamBefore(order, a, b))

\* ComputePlans.run up to the start of compute_plans
CpStart ==
  /\ cp.pc = "idle"
  /\ cp' = IF count_new_blobs = 0
             THEN [IdleCp EXCEPT !.pc = "no-op"]
             ELSE [IdleCp EXCEPT !.pc = "query", !.attempt = 1]
  /\ UNCHANGED <<scanVars, execVars, otherVars, processing_plans, processing_plan_hits>>

CpQuery(order) ==
  /\ cp.pc = "query"
  /\ cp' = [cp EXCEPT !.pc = "loop", !.stream = UnplannedStream(order)]
  /\ UNCHANGED <<scanVars, execVars, otherVars, processing_plans, processing_plan_hits>>

\* (mutant of PlanFull: the item limit is tested with > for >=)
PlanFull_OffByOne(cur_hashes, cur_bytes, s) ==
  Len(cur_hashes) > max_items \/ (cur_bytes + s) > max_bytes

\* the current plan is closed before the next blob of size s is taken
PlanFull(cur_hashes, cur_bytes, s) ==
  Len(cur_hashes) >= max_items \/ (cur_bytes + s) > max_bytes

\* one row of the stream
CpRow ==
  /\ cp.pc = "loop" /\ cp.pos <= Len(cp.stream)
  /\ LET h == cp.stream[cp.pos].blob_hash
         s == cp.stream[cp.pos].blob_size_bytes
     IN cp' = IF cp.cur_hashes = << >>
                THEN [cp EXCEPT !.cur_hashes = <<h>>, !.cur_bytes = s, !.pos = @ + 1]
              ELSE IF PlanFull(cp.cur_hashes, cp.cur_bytes, s)
                THEN [cp EXCEPT !.pc = "ins_plan"]
              ELSE [cp EXCEPT !.cur_hashes = Append(@, h), !.cur_bytes = @ + s,
                              !.pos = @ + 1]
  /\ UNCHANGED <<scanVars, execVars, otherVars, processing_plans, processing_plan_hits>>

\* the stream has ended: the last plan, if any, is inserted
CpEnd ==
  /\ cp.pc = "loop" /\ cp.pos > Len(cp.stream)
  /\ cp' = [cp EXCEPT !.pc = IF cp.cur_hashes # << >> THEN "ins_plan" ELSE "return"]
  /\ UNCHANGED <<scanVars, execVars, otherVars, processing_plans, processing_plan_hits>>

\* sorted(item_hashes) of a list without repeats: the set of its hashes
sorted_hashes(item_hashes) == {item_hashes[k] : k \in DOMAIN item_hashes}

\* sha1 of the sorted hashes
plan_hash(hashes) == <<"sha1", hashes>>

\* insert_plan, first insert: the processing_plans row
CpInsertPlan ==
  /\ cp.pc = "ins_plan"
  /\ processing_plans' = AddRows(processing_plans,
        {[plan_hash |-> plan_hash(sorted_hashes(cp.cur_hashes)),
          item_hashes |-> sorted_hashes(cp.cur_hashes),
          plan_size_bytes |-> cp.cur_bytes]})
  /\ cp' = [cp EXCEPT !.pc = "ins_hits"]
  /\ UNCHANGED <<scanVars, execVars, otherVars, processing_plan_hits>>

\* insert_plan, second insert: the processing_plan_hits rows; then the loop
\* goes on with the row that closed the plan
CpInsertHits ==
  /\ cp.pc = "ins_hits"
  /\ processing_plan_hits' = AddRows(processing_plan_hits,
        {[item_hash |-> h, plan_hash |-> plan_hash(sorted_hashes(cp.cur_hashes))] :
           h \in sorted_hashes(cp.cur_hashes)})
  /\ cp' = IF cp.pos <= Len(cp.stream)
             THEN [cp EXCEPT !.pc = "loop",
                             !.planned_items = @ + Len(cp.cur_hashes),
                             !.cur_hashes = <<cp.stream[cp.pos].blob_hash>>,
                             !.cur_bytes = cp.stream[cp.pos].blob_size_bytes,
                             !.pos = @ + 1]
             ELSE [cp EXCEPT !.pc = "return",
                             !.planned_items = @ + Len(cp.cur_hashes)]
  /\ UNCHANGED <<scanVars, execVars, otherVars, processing_plans>>

CpReturn ==
  /\ cp.pc = "return"
  /\ cp' = [IdleCp EXCEPT !.pc = "done", !.attempt = cp.attempt,
                          !.planned_items = cp.planned_items]
  /\ UNCHANGED <<scanVars, execVars, otherVars, processing_plans, processing_plan_hits>>

\* The worker dies during an attempt of compute_plans (or the attempt times
\* out); the activity is retried from its start until maximum_attempts.
CpCrash ==
  /\ cp.pc \in {"query", "loop", "ins_plan", "ins_hits", "return"}
  /\ cp' = IF cp.attempt < maximum_attempts
             THEN [IdleCp EXCEPT !.pc = "query", !.attempt = cp.attempt + 1]
             ELSE [IdleCp EXCEPT !.pc = "failed", !.attempt = cp.attempt]
  /\ UNCHANGED <<scanVars, execVars, otherVars, processing_plans, processing_plan_hits>>

NextPlan ==
  \/ CpStart
  \/ \E order \in TieOrders : CpQuery(order)
  \/ CpRow
  \/ CpEnd
  \/ CpInsertPlan
  \/ CpInsertHits
  \/ CpReturn
  \/ CpCrash

SpecPlan == InitPlan /\ [][NextPlan]_vars

(***************************************************************************)
(* Claims about the planner (checked under SpecPlan).                       *)
(***************************************************************************)
\* the plans (by plan_hash) whose item_hashes hold h
PlansHolding(h) ==
  {r.plan_hash : r \in {x \in Rows(processing_plans) : h \in x.item_hashes}}

HitRowCount(h) ==
  BagCardinality([r \in {x \in Rows(processing_plan_hits) : x.item_hash = h}
                    |-> processing_plan_hits[r]])

\* C9: after compute_plans has completed successfully (also after interrupted
\* attempts and retries) every blob has a processing_plan_hits row, and no
\* blob hash is in the item_hashes of two plans or in two hits rows.
C9_PlanCoverage ==
  cp.pc = "done" =>
    \A b \in Rows(blobs) :
      /\ HitRowCount(b.blob_hash) = 1
      /\ Cardinality(PlansHolding(b.blob_hash)) <= 1

\* the sum of the sizes of the blobs of items, size by size
SumOfSizes(items) ==
  LET of(s) == s * Cardinality({b \in Rows(blobs) :
                                  b.blob_size_bytes = s /\ b.blob_hash \in items})
  IN of(1) + of(max_bytes \div 2) + of(max_bytes + 1)

\* C10: every processing_plans row has at most max_items items, is at most
\* max_bytes large unless it has exactly one item, and its plan_size_bytes is
\* the sum of the sizes of its items.
C10_PlanSizeBounds ==
  \A r \in Rows(processing_plans) :
    /\ Cardinality(r.item_hashes) <= max_items
    /\ r.plan_size_bytes <= max_bytes \/ Cardinality(r.item_hashes) = 1
    /\ r.plan_size_bytes = SumOfSizes(r.item_hashes)

\* a plan closed by the item limit and a one-item plan above the byte limit
C10_Witness ==
  /\ \E r \in Rows(processing_plans) : Cardinality(r.item_hashes) = max_items
  /\ \E r \in Rows(processing_plans) :
        r.plan_size_bytes > max_bytes /\ Cardinality(r.item_hashes) = 1

(***************************************************************************)
(* P2 and P4: ExecuteSinglePlan with its children ProcessItemsBatched,      *)
(* ParseSingleFile and IndexDatasetPlan, for the one plan that holds the    *)
(* blobs of the disk tree, after the scan and the planner have succeeded.   *)
(***************************************************************************)
ExecItems == {FsFiles("")[p] : p \in DOMAIN FsFiles("")}

ExecPlan == plan_hash(ExecItems)

\* the hashes in ascending order (ORDER BY item_hash ASC)
HashOrder == <<"h1", "h2", "h3">>

InitExec ==
  /\ vfs_files = SetToBag({[container_hash |-> "", path |-> p, hash |-> FsFiles("")[p]] :
                              p \in DOMAIN FsFiles("")})
  /\ vfs_directories = SetToBag({[container_hash |-> "", path |-> d] : d \in FsDirs("")})
  /\ blobs = SetToBag({StoredBlob(h, BlobSize(h)) : h \in ExecItems})
  /\ blob_values = SetToBag({[blob_hash |-> h, blob_length |-> BlobSize(h)] :
                                h \in {x \in ExecItems : IsSmall(x)}})
  /\ s3_puts = SetToBag({h \in ExecItems : ~IsSmall(h)})
  /\ hf = [n \in Nodes |-> IF n[1] = "" THEN "done" ELSE "idle"]
  /\ dirAct = [n \in Nodes |-> IF n = RootNode("") THEN [IdleDirAct EXCEPT !.pc = "done"]
                               ELSE IdleDirAct]
  /\ ing = [n \in Nodes |-> IF n[1] = "" THEN [IdleIng EXCEPT !.pc = "done"] ELSE IdleIng]
  /\ scanRuns = [c \in Containers |-> IF c = "" THEN 1 ELSE 0]
  /\ scannedOk = [c \in Containers |-> c = ""]
  /\ wrote = [c \in Containers |->
                IF c = "" THEN [vfs |-> 3, blobs |-> 2, values |-> 1, uploads |-> 1,
                                prior_ok |-> FALSE]
                ELSE NoWrites]
  /\ crashes = 0
  /\ processing_plans = SetToBag({[plan_hash |-> ExecPlan, item_hashes |-> ExecItems,
                                   plan_size_bytes |-> BlobSize("h1") + BlobSize("h2")]})
  /\ processing_plan_hits = SetToBag({[item_hash |-> h, plan_hash |-> ExecPlan] :
                                         h \in ExecItems})
  /\ cp = [IdleCp EXCEPT !.pc = "done", !.attempt = 1, !.planned_items = 2]
  /\ NothingExecuted
  /\ NothingElse

EspStart ==
  /\ esp.pc = "idle"
  /\ esp' = [esp EXCEPT !.pc = "meta"]
  /\ UNCHANGED <<scanVars, planVars, otherVars, file_types, text_content, processing_errors,
                 doc_metadata, doc_text_pages, processing_plan_finished, pib, parse, idx>>

\* get_plan_items_metadata: the processing_plan_hits rows of the plan
EspGetItems ==
  /\ esp.pc = "meta"
  /\ LET hit == {r.item_hash : r \in {x \in Rows(processing_plan_hits) :
                                        x.plan_hash = ExecPlan}}
     IN esp' = [esp EXCEPT !.pc = "download",
                           !.items = SelectSeq(HashOrder, LAMBDA h : h \in hit)]
  /\ UNCHANGED <<scanVars, planVars, otherVars, file_types, text_content, processing_errors,
                 doc_metadata, doc_text_pages, processing_plan_finished, pib, parse, idx>>

\* download_plan_files returns and ProcessItemsBatched is started
EspDownload ==
  /\ esp.pc = "download"
  /\ esp' = [esp EXCEPT !.pc = "process"]
  /\ pib' = [pc |-> "spawn", i |-> 1]
  /\ UNCHANGED <<scanVars, planVars, otherVars, file_types, text_content, processing_errors,
                 doc_metadata, doc_text_pages, processing_plan_finished, parse, idx>>

\* (mutant of EspActivityFail: the failing plan is marked finished all the same)
EspActivityFail_Marks ==
  /\ esp.pc \in {"meta", "download", "cleanup"}
  /\ esp' = [esp EXCEPT !.pc = "failed"]
  /\ processing_plan_finished' = AddRows(processing_plan_finished,
                                         {[plan_hash |-> ExecPlan]})
  /\ UNCHANGED <<scanVars, planVars, otherVars, file_types, text_content, processing_errors,
                 doc_metadata, doc_text_pages, pib, parse, idx>>

\* get_plan_items_metadata, download_plan_files or cleanup_plan_dir fails for
\* good (after its retries): ExecuteSinglePlan fails
EspActivityFail ==
  /\ esp.pc \in {"meta", "download", "cleanup"}
  /\ esp' = [esp EXCEPT !.pc = "failed"]
  /\ UNCHANGED <<scanVars, planVars, otherVars, file_types, text_content, processing_errors,
                 doc_metadata, doc_text_pages, processing_plan_finished, pib, parse, idx>>

\* params.items[i:i + CONCURRENCY]
Batch == {esp.items[k] : k \in {j \in DOMAIN esp.items :
                                   pib.i <= j /\ j < pib.i + CONCURRENCY}}

\* ProcessItemsBatched starts the ParseSingleFile children of one batch
PibSpawn ==
  /\ pib.pc = "spawn"
  /\ IF esp.items = << >>
       THEN pib' = [pib EXCEPT !.pc = "done"] /\ parse' = parse
       ELSE /\ pib' = [pib EXCEPT !.pc = "gather"]
            /\ parse' = [h \in AllHashes |-> IF h \in Batch THEN "running" ELSE parse[h]]
  /\ UNCHANGED <<scanVars, planVars, otherVars, file_types, text_content, processing_errors,
                 doc_metadata, doc_text_pages, processing_plan_finished, esp, idx>>

\* A ParseSingleFile child ends.  typed: a detector wrote a file_types row;
\* text: a parser wrote a text_content page; ok: the workflow returned, else
\* it failed.
ParseFinish(h, typed, text, ok) ==
  /\ parse[h] = "running"
  /\ parse' = [parse EXCEPT ![h] = IF ok THEN "ok" ELSE "failed"]
  /\ file_types' = IF typed
                     THEN AddRows(file_types, {[hash |-> h, extracted_by |-> "file"]})
                     ELSE file_types
  /\ text_content' = IF text
                       THEN AddRows(text_content,
                              {[file_hash |-> h, extracted_by |-> "tika", page_id |-> 0]})
                       ELSE text_content
  /\ UNCHANGED <<scanVars, planVars, otherVars, processing_errors, doc_metadata, doc_text_pages,
                 processing_plan_finished, esp, pib, idx>>

\* (mutant of GatherReady: the batch is not awaited)
GatherReady_Any(batch) == TRUE

\* asyncio.gather(*futs, return_exceptions=True) returns
GatherReady(batch) == \A h \in batch : parse[h] \in {"ok", "failed"}

\* where ProcessItemsBatched stands after a batch
PibAfterBatch ==
  IF pib.i + CONCURRENCY > Len(esp.items)
    THEN [pib EXCEPT !.pc = "done"]
    ELSE [pib EXCEPT !.pc = "spawn", !.i = @ + CONCURRENCY]

\* the batch has ended; record_errors_from_results has rows to record or not
PibGather ==
  /\ pib.pc = "gather"
  /\ GatherReady(Batch)
  /\ pib' = IF \E h \in Batch : parse[h] = "failed"
              THEN [pib EXCEPT !.pc = "journal"]
              ELSE PibAfterBatch
  /\ UNCHANGED <<scanVars, planVars, otherVars, file_types, text_content, processing_errors,
                 doc_metadata, doc_text_pages, processing_plan_finished, esp, parse, idx>>

\* record_processing_errors inserts a row per failed child of the batch
PibJournal ==
  /\ pib.pc = "journal"
  /\ processing_errors' = AddRows(processing_errors,
        {[hash |-> h, task_name |-> "P3_ParseSingleFile"] :
           h \in {x \in Batch : parse[x] = "failed"}})
  /\ pib' = PibAfterBatch
  /\ UNCHANGED <<scanVars, planVars, otherVars, file_types, text_content, doc_metadata,
                 doc_text_pages, processing_plan_finished, esp, parse, idx>>

\* record_processing_errors fails for good: ProcessItemsBatched and with it
\* ExecuteSinglePlan fail
PibJournalFail ==
  /\ pib.pc = "journal"
  /\ pib' = [pib EXCEPT !.pc = "failed"]
  /\ esp' = [esp EXCEPT !.pc = "failed"]
  /\ UNCHANGED <<scanVars, planVars, otherVars, file_types, text_content, processing_errors,
                 doc_metadata, doc_text_pages, processing_plan_finished, parse, idx>>

\* ProcessItemsBatched has returned
EspProcessed ==
  /\ esp.pc = "process" /\ pib.pc = "done"
  /\ esp' = [esp EXCEPT !.pc = "cleanup"]
  /\ UNCHANGED <<scanVars, planVars, otherVars, file_types, text_content, processing_errors,
                 doc_metadata, doc_text_pages, processing_plan_finished, pib, parse, idx>>

\* cleanup_plan_dir returns and IndexDatasetPlan is started
EspCleanup ==
  /\ esp.pc = "cleanup"
  /\ esp' = [esp EXCEPT !.pc = "index"]
  /\ idx' = [IdleIdx EXCEPT !.pc = "fetch"]
  /\ UNCHANGED <<scanVars, planVars, otherVars, file_types, text_content, processing_errors,
                 doc_metadata, doc_text_pages, processing_plan_finished, pib, parse>>

\* the item_hashes of the plan's processing_plans row
fetch_plan_hashes ==
  UNION {r.item_hashes : r \in {x \in Rows(processing_plans) : x.plan_hash = ExecPlan}}

\* fetch_plan_hashes returns; index_text_content and index_metadatas are
\* started for the chunk of hashes
IdxFetch ==
  /\ idx.pc = "fetch"
  /\ idx' = [idx EXCEPT !.pc = "gather", !.plan_hashes = fetch_plan_hashes,
                        !.text = "running", !.text_attempt = 1,
                        !.meta = "running", !.meta_attempt = 1]
  /\ UNCHANGED <<scanVars, planVars, otherVars, file_types, text_content, processing_errors,
                 doc_metadata, doc_text_pages, processing_plan_finished, esp, pib, parse>>

\* fetch_plan_hashes fails for good: IndexDatasetPlan and ExecuteSinglePlan fail
IdxFetchFail ==
  /\ idx.pc = "fetch"
  /\ idx' = [idx EXCEPT !.pc = "failed"]
  /\ esp' = [esp EXCEPT !.pc = "failed"]
  /\ UNCHANGED <<scanVars, planVars, otherVars, file_types, text_content, processing_errors,
                 doc_metadata, doc_text_pages, processing_plan_finished, pib, parse>>

\* index_text_content: a doc_text_pages row per text_content row of the hashes
IndexTextOk ==
  /\ idx.text = "running"
  /\ doc_text_pages' = AddRows(doc_text_pages,
        {t \in Rows(text_content) : t.file_hash \in idx.plan_hashes})
  /\ idx' = [idx EXCEPT !.text = "ok"]
  /\ UNCHANGED <<scanVars, planVars, otherVars, file_types, text_content, processing_errors,
                 doc_metadata, processing_plan_finished, esp, pib, parse>>

\* an attempt of index_text_content fails
IndexTextFail ==
  /\ idx.text = "running"
  /\ idx' = IF idx.text_attempt < index_maximum_attempts
              THEN [idx EXCEPT !.text_attempt = @ + 1]
              ELSE [idx EXCEPT !.text = "failed"]
  /\ UNCHANGED <<scanVars, planVars, otherVars, file_types, text_content, processing_errors,
                 doc_metadata, doc_text_pages, processing_plan_finished, esp, pib, parse>>

\* index_metadatas: a doc_metadata row per hash that file_types JOIN vfs_files
\* yields
IndexMetaOk ==
  /\ idx.meta = "running"
  /\ doc_metadata' = AddRows(doc_metadata,
        {[file_hash |-> h] :
           h \in {x \in idx.plan_hashes :
                    /\ \E t \in Rows(file_types) : t.hash = x
                    /\ \E v \in Rows(vfs_files) : v.hash = x}})
  /\ idx' = [idx EXCEPT !.meta = "ok"]
  /\ UNCHANGED <<scanVars, planVars, otherVars, file_types, text_content, processing_errors,
                 doc_text_pages, processing_plan_finished, esp, pib, parse>>

\* an attempt of index_metadatas fails
IndexMetaFail ==
  /\ idx.meta = "running"
  /\ idx' = IF idx.meta_attempt < index_maximum_attempts
              THEN [idx EXCEPT !.meta_attempt = @ + 1]
              ELSE [idx EXCEPT !.meta = "failed"]
  /\ UNCHANGED <<scanVars, planVars, otherVars, file_types, text_content, processing_errors,
                 doc_metadata, doc_text_pages, processing_plan_finished, esp, pib, parse>>

\* gather(*fut, return_exceptions=True) returns, whatever the activities'
\* results; IndexDatasetPlan returns and mark_plan_finished is started
IdxReturn ==
  /\ idx.pc = "gather"
  /\ idx.text \in {"ok", "failed"} /\ idx.meta \in {"ok", "failed"}
  /\ idx' = [idx EXCEPT !.pc = "done"]
  /\ esp' = [esp EXCEPT !.pc = "mark", !.attempt = 1]
  /\ UNCHANGED <<scanVars, planVars, otherVars, file_types, text_content, processing_errors,
                 doc_metadata, doc_text_pages, processing_plan_finished, pib, parse>>

\* mark_plan_finished, the insert
MarkInsert ==
  /\ esp.pc = "mark"
  /\ processing_plan_finished' = AddRows(processing_plan_finished,
                                         {[plan_hash |-> ExecPlan]})
  /\ esp' = [esp EXCEPT !.pc = "mark_ret"]
  /\ UNCHANGED <<scanVars, planVars, otherVars, file_types, text_content, processing_errors,
                 doc_metadata, doc_text_pages, pib, parse, idx>>

MarkReturn ==
  /\ esp.pc = "mark_ret"
  /\ esp' = [esp EXCEPT !.pc = "finished"]
  /\ UNCHANGED <<scanVars, planVars, otherVars, file_types, text_content, processing_errors,
                 doc_metadata, doc_text_pages, processing_plan_finished, pib, parse, idx>>

\* an attempt of mark_plan_finished dies, before or after its insert
MarkCrash ==
  /\ esp.pc \in {"mark", "mark_ret"}
  /\ esp' = IF esp.attempt < maximum_attempts
              THEN [esp EXCEPT !.pc = "mark", !.attempt = @ + 1]
              ELSE [esp EXCEPT !.pc = "failed"]
  /\ UNCHANGED <<scanVars, planVars, otherVars, file_types, text_content, processing_errors,
                 doc_metadata, doc_text_pages, processing_plan_finished, pib, parse, idx>>

NextExec ==
  \/ EspStart
  \/ EspGetItems
  \/ EspDownload
  \/ EspActivityFail
  \/ PibSpawn
  \/ \E h \in AllHashes, typed \in BOOLEAN, text \in BOOLEAN, ok \in BOOLEAN :
       ParseFinish(h, typed, text, ok)
  \/ PibGather
  \/ PibJournal
  \/ PibJournalFail
  \/ EspProcessed
  \/ EspCleanup
  \/ IdxFetch
  \/ IdxFetchFail
  \/ IndexTextOk
  \/ IndexTextFail
  \/ IndexMetaOk
  \/ IndexMetaFail
  \/ IdxReturn
  \/ MarkInsert
  \/ MarkReturn
  \/ MarkCrash

SpecExec == InitExec /\ [][NextExec]_vars

(***************************************************************************)
(* Claims about the executor and the indexer (checked under SpecExec).      *)
(***************************************************************************)
PlanFinished == \E r \in Rows(processing_plan_finished) : r.plan_hash = ExecPlan

\* C1: if a processing_plan_finished row exists for the plan, every
\* item_hash of the plan has a doc_metadata row and every text_content page
\* of an item of the plan has a doc_text_pages row.
C1_FinishedImpliesIndexed ==
  PlanFinished =>
    /\ \A h \in fetch_plan_hashes : \E d \in Rows(doc_metadata) : d.file_hash = h
    /\ \A t \in Rows(text_content) :
          t.file_hash \in fetch_plan_hashes => t \in Rows(doc_text_pages)

\* the marker is written after both index activities have failed for good
C1_Witness == PlanFinished /\ idx.text = "failed" /\ idx.meta = "failed"

Journaled(h) ==
  \E e \in Rows(processing_errors) : e.hash = h /\ e.task_name = "P3_ParseSingleFile"

\* C2: once IndexDatasetPlan has been started, every ParseSingleFile child of
\* the plan has ended, successfully or failed with a processing_errors row;
\* and once the processing_plan_finished row exists, IndexDatasetPlan has
\* returned.
C2_ParseBeforeIndexBeforeFinish ==
  /\ idx.pc # "idle" =>
       \A h \in fetch_plan_hashes :
         \/ parse[h] = "ok"
         \/ parse[h] = "failed" /\ Journaled(h)
  /\ PlanFinished => idx.pc = "done"

\* the marker is written for a plan with a failed and a successful parse
C2_Witness ==
  /\ PlanFinished
  /\ \E h \in ExecItems : parse[h] = "failed"
  /\ \E h \in ExecItems : parse[h] = "ok"

(***************************************************************************)
(* P2 ExecutePlans: the workflow that lists the pending plans, executes     *)
(* them in batches and calls itself for the rest.  ExecuteSinglePlan is     *)
(* taken by its outcome here: it fails, or it writes the                    *)
(* processing_plan_finished row of its plan.                                *)
(***************************************************************************)
\* starting_plan_hash of a run that starts at the first pending plan
NoHash == << >>

\* the plan compute_plans makes of the one blob b<k>
PlanOf(k) == plan_hash({BlobName(k)})

MaxRank == ManyPlans + MaxNesting

\* the plan hashes in ascending order (ORDER BY p.plan_hash ASC)
PlanOrder == <<ExecPlan>> \o [k \in 1..MaxRank |-> PlanOf(k)]

\* the plan tables ExecutePlans is given: plans one-blob plans b1..b<plans>
\* (planned, or left to ComputePlans), the blobs b1..b<nesting> being
\* containers (b<k> holds b<k+1>), the plans of the blobs in fragile being
\* able to fail
Worlds ==
  {[plans |-> ManyPlans, planned |-> TRUE, nesting |-> 0, fragile |-> f] :
      f \in {{}, {1}, {ManyPlans}}}
    \cup {[plans |-> 1, planned |-> p, nesting |-> n, fragile |-> f] :
            p \in BOOLEAN, n \in {0, 1, 2, MaxNesting}, f \in {{}, {1}, {2}}}

InitExecutor ==
  /\ NothingExecuted
  /\ cp = IdleCp
  /\ epWorld \in Worlds
  /\ vfs_files = SetToBag({[container_hash |-> "", path |-> "/" \o BlobName(k),
                            hash |-> BlobName(k)] : k \in 1..epWorld.plans})
  /\ vfs_directories = SetToBag({[container_hash |-> "", path |-> "/"]})
  /\ blobs = SetToBag({StoredBlob(BlobName(k), 1) : k \in 1..epWorld.plans})
  /\ blob_values = SetToBag({[blob_hash |-> BlobName(k), blob_length |-> 1] :
                               k \in 1..epWorld.plans})
  /\ s3_puts = EmptyBag
  /\ hf = [n \in Nodes |-> "idle"]
  /\ dirAct = [n \in Nodes |-> IdleDirAct]
  /\ ing = [n \in Nodes |-> IdleIng]
  /\ scanRuns = [c \in Containers |-> 0]
  /\ scannedOk = [c \in Containers |-> FALSE]
  /\ wrote = [c \in Containers |-> NoWrites]
  /\ crashes = 0
  /\ processing_plans =
       IF epWorld.planned
         THEN SetToBag({[plan_hash |-> PlanOf(k), item_hashes |-> {BlobName(k)},
                         plan_size_bytes |-> 1] : k \in 1..epWorld.plans})
         ELSE EmptyBag
  /\ processing_plan_hits =
       IF epWorld.planned
         THEN SetToBag({[item_hash |-> BlobName(k), plan_hash |-> PlanOf(k)] :
                          k \in 1..epWorld.plans})
         ELSE EmptyBag
  /\ ep = << >>
  /\ epOut = [ret |-> "none", guard |-> FALSE]
  /\ started = EmptyBag
  /\ NoRouter
  /\ NoDatasets
  /\ NothingMore

\* a run of ExecutePlans that has just been started
NewRun(depth, start) ==
  [depth |-> depth, start |-> start, pc |-> "begin",
   plan_hashes |-> << >>, i |-> 1, cont |-> NoHash]

\* the run that is executing: the last child of the chain
Cur == ep[Len(ep)]

SetCur(f) == [ep EXCEPT ![Len(ep)] = f]

\* the chain once the executing run has ended
Ended == SubSeq(ep, 1, Len(ep) - 1)

\* submit_execute_plans: starting_plan_hash None, no recursivity_depth
EpSubmit ==
  /\ ep = << >> /\ epOut.ret = "none"
  /\ ep' = <<NewRun(0, NoHash)>>
  /\ UNCHANGED <<scanVars, planVars, execVars, epOut, started, epWorld, routerVars, cliVars, moreVars>>

\* the depth guard, then ensure_temp_dir_exists
EpBegin ==
  /\ ep # << >> /\ Cur.pc = "begin"
  /\ IF Cur.depth > MAX_RECURSIVITY_DEPTH
       THEN /\ ep' = Ended
            /\ epOut' = [ret |-> "error", guard |-> TRUE]
       ELSE /\ ep' = SetCur([Cur EXCEPT !.pc = "list"])
            /\ epOut' = epOut
  /\ UNCHANGED <<scanVars, planVars, execVars, started, epWorld, routerVars, cliVars, moreVars>>

\* p.plan_hash >= starting_plan_hash, by the positions in PlanOrder
AtOrAfter_Exclusive(from, k) == k > from

AtOrAfter(from, k) == k >= from

\* list_pending_plans: the plans without a processing_plan_finished row, from
\* start on, ascending, LIMIT 1001
list_pending_plans(start) ==
  LET planned == {p.plan_hash : p \in Rows(processing_plans)}
      finished == {f.plan_hash : f \in Rows(processing_plan_finished)}
      from == IF start = NoHash THEN 1
              ELSE CHOOSE k \in DOMAIN PlanOrder : PlanOrder[k] = start
      pending == SelectSeq([k \in DOMAIN PlanOrder |-> k],
                           LAMBDA k : /\ AtOrAfter(from, k)
                                      /\ PlanOrder[k] \in planned
                                      /\ PlanOrder[k] \notin finished)
      n == IF Len(pending) < LIST_LIMIT THEN Len(pending) ELSE LIST_LIMIT
  IN [j \in 1..n |-> PlanOrder[pending[j]]]

\* list_pending_plans returns: an empty list leads to the count of new
\* blobs, a list of more than 1000 hashes keeps the 1001st for the continuation
EpList ==
  /\ ep # << >> /\ Cur.pc = "list"
  /\ LET hashes == list_pending_plans(Cur.start)
     IN ep' = SetCur(
          IF hashes = << >>
            THEN [Cur EXCEPT !.pc = "count_empty"]
            ELSE IF Len(hashes) > PAGE_SIZE
              THEN [Cur EXCEPT !.pc = "batch", !.cont = hashes[PAGE_SIZE + 1],
                               !.plan_hashes = SubSeq(hashes, 1, PAGE_SIZE)]
              ELSE [Cur EXCEPT !.pc = "batch", !.plan_hashes = hashes])
  /\ UNCHANGED <<scanVars, planVars, execVars, epOut, started, epWorld, routerVars, cliVars, moreVars>>

\* no pending plan: with new blobs ComputePlans is started, without the run
\* returns "no plans"
EpCountEmpty ==
  /\ ep # << >> /\ Cur.pc = "count_empty"
  /\ IF count_new_blobs > 0
       THEN ep' = SetCur([Cur EXCEPT !.pc = "compute_empty"]) /\ epOut' = epOut
       ELSE ep' = Ended /\ epOut' = [epOut EXCEPT !.ret = "ok"]
  /\ UNCHANGED <<scanVars, planVars, execVars, started, epWorld, routerVars, cliVars, moreVars>>

\* an activity of the run (ensure_temp_dir_exists, list_pending_plans,
\* count_new_blobs) or its ComputePlans child fails for good: the run fails
EpActivityFail ==
  /\ ep # << >>
  /\ Cur.pc \in {"list", "count_empty", "count", "compute_empty", "compute"}
  /\ ep' = Ended
  /\ epOut' = [epOut EXCEPT !.ret = "error"]
  /\ UNCHANGED <<scanVars, planVars, execVars, started, epWorld, routerVars, cliVars, moreVars>>

\* the blob whose one-blob plan has the hash ph
PlanBlob(ph) == CHOOSE h \in ph[2] : TRUE

\* the blobs the plans of a batch unpack: b<k> holds b<k+1> for k <= nesting
Unpacked(batch) ==
  IF epWorld.nesting = 0 THEN {}
  ELSE {BlobName(k + 1) : k \in {j \in 1..epWorld.nesting : PlanOf(j) \in batch}}

\* the plans of a batch that can fail
Fragile(batch) == {PlanOf(k) : k \in epWorld.fragile} \cap batch

\* plan_hashes[i:i + CONCURRENCY]
PlanBatch(f) ==
  {f.plan_hashes[k] : k \in {j \in DOMAIN f.plan_hashes :
                               f.i <= j /\ j < f.i + PLAN_CONCURRENCY}}

\* what the ExecuteSinglePlan children in done leave behind: their
\* processing_plan_finished rows and the blobs and vfs_files rows of what
\* they unpacked (ingest_files_batch skips a blob that is stored)
PlansDone(done) ==
  LET new == {h \in Unpacked(done) : \A b \in Rows(blobs) : b.blob_hash # h}
  IN /\ processing_plan_finished' =
          AddRows(processing_plan_finished, {[plan_hash |-> ph] : ph \in done})
     /\ blobs' = AddRows(blobs, {StoredBlob(h, 1) : h \in new})
     /\ blob_values' = AddRows(blob_values,
                               {[blob_hash |-> h, blob_length |-> 1] : h \in new})
     /\ vfs_files' = AddRows(vfs_files,
          UNION {{[container_hash |-> PlanBlob(ph), path |-> "/" \o h, hash |-> h] :
                    h \in new \cap Unpacked({ph})} : ph \in done})

\* one batch: its ExecuteSinglePlan children are started and gathered; all of
\* them return and the next batch follows
EpBatch ==
  /\ ep # << >> /\ Cur.pc = "batch"
  /\ LET batch == PlanBatch(Cur)
     IN /\ started' = started (+) SetToBag(batch)
        /\ PlansDone(batch)
        /\ ep' = SetCur(IF Cur.i + PLAN_CONCURRENCY > Len(Cur.plan_hashes)
                          THEN [Cur EXCEPT !.pc = "count"]
                          ELSE [Cur EXCEPT !.i = @ + PLAN_CONCURRENCY])
  /\ UNCHANGED <<vfs_directories, s3_puts, hf, dirAct, ing, scanRuns, scannedOk,
                 wrote, crashes, planVars, file_types, text_content,
                 processing_errors, doc_metadata, doc_text_pages, esp, pib, parse,
                 idx, epOut, epWorld, routerVars, cliVars, moreVars>>

\* one batch in which a child fails: gather raises and the run fails; the
\* other children of the batch have all returned (siblings) or none has
EpBatchFail(ph, siblings) ==
  /\ ep # << >> /\ Cur.pc = "batch"
  /\ LET batch == PlanBatch(Cur)
     IN /\ ph \in Fragile(batch)
        /\ started' = started (+) SetToBag(batch)
        /\ PlansDone(IF siblings THEN batch \ {ph} ELSE {})
  /\ ep' = Ended
  /\ epOut' = [epOut EXCEPT !.ret = "error"]
  /\ UNCHANGED <<vfs_directories, s3_puts, hf, dirAct, ing, scanRuns, scannedOk,
                 wrote, crashes, planVars, file_types, text_content,
                 processing_errors, doc_metadata, doc_text_pages, esp, pib, parse,
                 idx, epWorld, routerVars, cliVars, moreVars>>

\* after the batches: the continuation child is started with the kept hash;
\* without one the new blobs are counted, and the run returns
\* "executed n plans" if there is none
EpAfterBatches ==
  /\ ep # << >> /\ Cur.pc = "count"
  /\ IF Cur.cont # NoHash
       THEN /\ ep' = SetCur([Cur EXCEPT !.pc = "wait_cont"])
                       \o <<NewRun(Cur.depth + 1, Cur.cont)>>
            /\ epOut' = epOut
       ELSE IF count_new_blobs > 0
         THEN ep' = SetCur([Cur EXCEPT !.pc = "compute"]) /\ epOut' = epOut
         ELSE ep' = Ended /\ epOut' = [epOut EXCEPT !.ret = "ok"]
  /\ UNCHANGED <<scanVars, planVars, execVars, started, epWorld, routerVars, cliVars, moreVars>>

\* the ComputePlans child returns, having planned the blobs without a
\* processing_plan_hits row (they are few and small: one plan), and the
\* restart child is started
EpComputePlans ==
  /\ ep # << >> /\ Cur.pc \in {"compute_empty", "compute"}
  /\ LET new == {b.blob_hash : b \in Rows(blobs)} \ PlannedHashes
     IN /\ processing_plans' = AddRows(processing_plans,
              {[plan_hash |-> plan_hash(new), item_hashes |-> new,
                plan_size_bytes |-> Cardinality(new)]})
        /\ processing_plan_hits' = AddRows(processing_plan_hits,
              {[item_hash |-> h, plan_hash |-> plan_hash(new)] : h \in new})
  /\ ep' = SetCur([Cur EXCEPT !.pc = IF Cur.pc = "compute" THEN "wait_restart"
                                     ELSE "wait_restart_empty"])
             \o <<NewRun(Cur.depth + 1, NoHash)>>
  /\ UNCHANGED <<scanVars, execVars, cp, epOut, started, epWorld, routerVars, cliVars, moreVars>>

\* the child of a waiting run has ended.  The continuation child and the
\* restart child of the run without pending plans are awaited bare: their
\* result and their failure are the run's.  The restart child after the
\* batches is awaited inside try/except Exception: its failure is logged and
\* the run returns "error executing restart plans: ..."
EpChildEnded ==
  /\ ep # << >> /\ epOut.ret # "none"
  /\ Cur.pc \in {"wait_cont", "wait_restart_empty", "wait_restart"}
  /\ ep' = Ended
  /\ epOut' = IF Cur.pc = "wait_restart" THEN [epOut EXCEPT !.ret = "ok"] ELSE epOut
  /\ UNCHANGED <<scanVars, planVars, execVars, started, epWorld, routerVars, cliVars, moreVars>>

NextExecutor ==
  \/ EpSubmit
  \/ EpBegin
  \/ EpList
  \/ EpCountEmpty
  \/ EpActivityFail
  \/ EpBatch
  \/ \E ph \in {PlanOf(k) : k \in epWorld.fragile}, siblings \in BOOLEAN :
       EpBatchFail(ph, siblings)
  \/ EpAfterBatches
  \/ EpComputePlans
  \/ EpChildEnded

SpecExecutor == InitExecutor /\ [][NextExecutor]_vars

(***************************************************************************)
(* Claims about ExecutePlans (checked under SpecExecutor).                  *)
(***************************************************************************)
\* the top-level ExecutePlans workflow has completed without failing
TopCompleted == ep = << >> /\ epOut.ret = "ok"

TopFailed == ep = << >> /\ epOut.ret = "error"

\* C11: when more than 1000 plans are pending, no plan is started twice by an
\* ExecutePlans run and its continuation children, no run executes more than
\* the first 1000 hashes it listed, a continuation child starts at the hash
\* its parent kept, and once the top-level run has completed every pending
\* plan has been started exactly once.
C11_ExecutorPagination ==
  epWorld.plans > PAGE_SIZE =>
    /\ \A ph \in DOMAIN started : started[ph] = 1
    /\ \A k \in DOMAIN ep :
         /\ Len(ep[k].plan_hashes) <= PAGE_SIZE
         /\ (k > 1 /\ ep[k - 1].pc = "wait_cont") => ep[k].start = ep[k - 1].cont
    /\ TopCompleted =>
         \A p \in Rows(processing_plans) : CopiesIn(p.plan_hash, started) = 1

\* the top-level run and one continuation child have executed 1001 plans
C11_Witness ==
  /\ TopCompleted
  /\ epWorld.plans > PAGE_SIZE
  /\ BagCardinality(started) = epWorld.plans

\* the blobs covered by a plan that has a processing_plan_finished row
FinishedBlobs ==
  LET finished == {f.plan_hash : f \in Rows(processing_plan_finished)}
  IN UNION {p.item_hashes : p \in {x \in Rows(processing_plans) :
                                     x.plan_hash \in finished}}

\* C12: whenever the top-level ExecutePlans workflow has completed without
\* failing, no blob is unplanned, no plan is pending, and every blob is
\* covered by a plan that has a processing_plan_finished row.
C12_ExecutorConvergence ==
  TopCompleted =>
    /\ count_new_blobs = 0
    /\ list_pending_plans(NoHash) = << >>
    /\ \A b \in Rows(blobs) : b.blob_hash \in FinishedBlobs

\* the top-level run has completed after a restart child planned and
\* executed what a container unpacked
C12_Witness ==
  /\ TopCompleted
  /\ epWorld.nesting > 0
  /\ \E p \in Rows(processing_plans) : p.plan_hash = PlanOf(2)

\* C13: a run invoked with recursivity_depth greater than 100 schedules
\* nothing, and once the guard has been raised the top-level ExecutePlans
\* workflow ends as failed.
C13_DepthGuardFatal ==
  /\ \A k \in DOMAIN ep :
       ep[k].depth > MAX_RECURSIVITY_DEPTH => ep[k].pc = "begin"
  /\ (ep = << >> /\ epOut.guard) => TopFailed

\* the guard has been raised and the chain of runs has ended
C13_Witness == ep = << >> /\ epOut.guard

(***************************************************************************)
(* Claims about the errors of a plan and of its files (checked under        *)
(* SpecExec).                                                               *)
(***************************************************************************)
\* ExecuteSinglePlan has failed before mark_plan_finished was scheduled
FailedBeforeMark == esp.pc = "failed" /\ esp.attempt = 0

\* C14: if an activity or a child workflow of ExecuteSinglePlan ahead of
\* mark_plan_finished fails for good, ExecuteSinglePlan fails, the plan has
\* no processing_plan_finished row and list_pending_plans returns the plan.
C14_PlanErrorsKeepPlanPending ==
  /\ (pib.pc = "failed" \/ idx.pc = "failed") => FailedBeforeMark
  /\ FailedBeforeMark =>
       /\ ~PlanFinished
       /\ \E k \in DOMAIN list_pending_plans(NoHash) :
            list_pending_plans(NoHash)[k] = ExecPlan

\* cleanup_plan_dir has failed after the files of the plan were parsed
C14_Witness == FailedBeforeMark /\ pib.pc = "done" /\ idx.pc = "idle"

JournalRows(h) ==
  CopiesIn([hash |-> h, task_name |-> "P3_ParseSingleFile"], processing_errors)

\* C15: whatever ParseSingleFile children fail, ProcessItemsBatched does not
\* fail, and when it has returned every item of the plan has had its child
\* and every failed child has exactly one P3_ParseSingleFile journal row.
C15_PerFileErrorsStayBelowPlan ==
  /\ pib.pc # "failed"
  /\ pib.pc = "done" =>
       \A k \in DOMAIN esp.items :
         /\ parse[esp.items[k]] \in {"ok", "failed"}
         /\ parse[esp.items[k]] = "failed" => JournalRows(esp.items[k]) = 1

\* ProcessItemsBatched has returned for a plan with a failed child
C15_Witness ==
  /\ pib.pc = "done"
  /\ \E k \in DOMAIN esp.items : parse[esp.items[k]] = "failed"

\* C18: when record_processing_errors has been called, ProcessItemsBatched
\* goes on with its remaining steps whether the activity fails or not: from
\* the journal step it never fails.
C18_JournalNeverRaises ==
  [][pib.pc = "journal" => pib'.pc # "failed"]_vars

\* C19: an activity that has failed for good was attempted 3 times, and no
\* activity is attempted more than 3 times.
C19_ThreeAttempts ==
  /\ idx.text = "failed" => idx.text_attempt = maximum_attempts
  /\ idx.meta = "failed" => idx.meta_attempt = maximum_attempts
  /\ idx.text_attempt <= maximum_attempts
  /\ idx.meta_attempt <= maximum_attempts
  /\ esp.attempt <= maximum_attempts
  /\ cp.attempt <= maximum_attempts

\* index_text_content has failed for good
C19_Witness == idx.text = "failed"

(***************************************************************************)
(* P3 ParseSingleFile, the router: three detectors, the handlers their      *)
(* coarse types select, and the error journal.  A detector and a handler    *)
(* are taken by their outcome after their retries.                          *)
(***************************************************************************)
\* params.item_hash of the ParseSingleFile that is followed
RoutedFile == "h1"

\* what a detector that succeeds can return as coarse_types
DetectorAnswers == {{}, {"image"}, {"text", "pdf"}}

\* the coarse type whose branch starts the handler
RouteOf(t) ==
  CASE t = "archive_scan" -> "archive"
    [] t = "email_scan" -> "email"
    [] t = "extract_plaintext_chunks" -> "text"
    [] t = "pdf_process" -> "pdf"
    [] t = "parse_image_metadata_and_store" -> "image"
    [] t = "run_easyocr_and_store" -> "image"
    [] t = "parse_audio_metadata_and_store" -> "audio"
    [] t = "video_process" -> "video"

\* task_ids: the handlers ParseSingleFile starts for the coarse types
Dispatched(coarse_types) == {t \in TaskIds : RouteOf(t) \in coarse_types}

\* the tables and workflows the router leaves alone
routerRest == <<scanVars, planVars, epVars, cliVars, moreVars, file_types, text_content,
                doc_metadata, doc_text_pages, processing_plan_finished, esp, pib,
                parse, idx>>

InitRouter == InitExec

\* ParseSingleFile starts the three detectors
PsfStart ==
  /\ psf.pc = "idle"
  /\ psf' = [psf EXCEPT !.pc = "detect",
                        !.det = [k \in DOMAIN detector_names |-> "running"]]
  /\ UNCHANGED <<routerRest, processing_errors>>

\* a detector returns its coarse_types, or fails for good
DetectorEnds(k, ok, types) ==
  /\ psf.pc = "detect" /\ psf.det[k] = "running"
  /\ psf' = IF ok THEN [psf EXCEPT !.det[k] = "ok", !.answer[k] = types]
                  ELSE [psf EXCEPT !.det[k] = "failed"]
  /\ UNCHANGED <<routerRest, processing_errors>>

\* gather(mime_fut, tika_fut, magika_fut, return_exceptions=True) returns
PsfDetected ==
  /\ psf.pc = "detect"
  /\ \A k \in DOMAIN detector_names : psf.det[k] \in {"ok", "failed"}
  /\ psf' = [psf EXCEPT !.pc = "combine", !.k = 1]
  /\ UNCHANGED <<routerRest, processing_errors>>

\* _combine_detector_results, one detector: a failed one is journaled and
\* skipped, the coarse_types of another are added; after the last detector
\* the handlers are started
PsfCombine ==
  /\ psf.pc = "combine"
  /\ psf' = IF psf.k > Len(detector_names)
              THEN [psf EXCEPT !.pc = "gather",
                      !.task = [t \in TaskIds |->
                                  IF t \in Dispatched(psf.coarse_types)
                                    THEN "running" ELSE "none"]]
              ELSE IF psf.det[psf.k] = "failed"
                THEN [psf EXCEPT !.pc = "det_journal"]
                ELSE [psf EXCEPT !.coarse_types = @ \cup psf.answer[psf.k],
                                 !.k = @ + 1]
  /\ UNCHANGED <<routerRest, processing_errors>>

\* the errors the router passes for a failed detector: [str(res)]
DetectorErrors == {[is_dict |-> FALSE, error_logs |-> "detector failed"]}

\* the errors record_errors_from_results passes: a dict per failed result
ResultErrors(hash, tasks) ==
  {[is_dict |-> TRUE, hash |-> hash, task_name |-> t] : t \in tasks}

\* record_processing_errors: e.get(...) of every entry; an entry that is no
\* dict makes the activity raise and nothing is inserted
RowsRecorded(errors) ==
  IF \E e \in errors : ~e.is_dict
    THEN {}
    ELSE {[hash |-> e.hash, task_name |-> e.task_name] : e \in errors}

\* record_processing_errors for the failed detector, attempted once inside
\* try/except Exception: pass; the loop goes on with the next detector
PsfDetectorJournal ==
  /\ psf.pc = "det_journal"
  /\ processing_errors' =
       AddRows(processing_errors,
               RowsRecorded(DetectorErrors))
  /\ psf' = [psf EXCEPT !.pc = "combine", !.k = @ + 1]
  /\ UNCHANGED routerRest

\* a handler (activity or child workflow) returns, or fails for good
HandlerEnds(t, ok) ==
  /\ psf.pc = "gather" /\ psf.task[t] = "running"
  /\ psf' = [psf EXCEPT !.task[t] = IF ok THEN "ok" ELSE "failed"]
  /\ UNCHANGED <<routerRest, processing_errors>>

\* gather(*futs, return_exceptions=True) returns; record_errors_from_results
\* returns 0 without a failed handler and ParseSingleFile returns "ok"
PsfGathered ==
  /\ psf.pc = "gather"
  /\ \A t \in TaskIds : psf.task[t] # "running"
  /\ psf' = [psf EXCEPT !.pc = IF \E t \in TaskIds : psf.task[t] = "failed"
                                 THEN "journal" ELSE "ok"]
  /\ UNCHANGED <<routerRest, processing_errors>>

\* record_processing_errors inserts a row per failed handler
PsfJournal ==
  /\ psf.pc = "journal"
  /\ processing_errors' =
       AddRows(processing_errors,
               RowsRecorded(ResultErrors(RoutedFile,
                              {t \in TaskIds : psf.task[t] = "failed"})))
  /\ psf' = [psf EXCEPT !.pc = "ok"]
  /\ UNCHANGED routerRest

\* record_processing_errors fails for good: the await in
\* record_errors_from_results raises and ParseSingleFile fails
PsfJournalFail ==
  /\ psf.pc = "journal"
  /\ psf' = [psf EXCEPT !.pc = "failed"]
  /\ UNCHANGED <<routerRest, processing_errors>>

NextRouter ==
  \/ PsfStart
  \/ \E k \in DOMAIN detector_names, ok \in BOOLEAN, types \in DetectorAnswers :
       DetectorEnds(k, ok, types)
  \/ PsfDetected
  \/ PsfCombine
  \/ PsfDetectorJournal
  \/ \E t \in TaskIds, ok \in BOOLEAN : HandlerEnds(t, ok)
  \/ PsfGathered
  \/ PsfJournal
  \/ PsfJournalFail

SpecRouter == InitRouter /\ [][NextRouter]_vars

(***************************************************************************)
(* Claims about the router (checked under SpecRouter).                      *)
(***************************************************************************)
RouterRows(task_name) ==
  CopiesIn([hash |-> RoutedFile, task_name |-> task_name], processing_errors)

\* C16: ParseSingleFile does not fail when a handler fails, and when it has
\* returned "ok" every handler it started has ended and every failed handler
\* has exactly one journal row with its task name and the file's hash.
C16_HandlerIsolation ==
  /\ psf.pc # "failed"
  /\ psf.pc = "ok" =>
       \A t \in Dispatched(psf.coarse_types) :
         /\ psf.task[t] \in {"ok", "failed"}
         /\ psf.task[t] = "failed" => RouterRows(t) = 1

\* ParseSingleFile has returned "ok" with a failed and a successful handler
C16_Witness ==
  /\ psf.pc = "ok"
  /\ \E t \in TaskIds : psf.task[t] = "failed"
  /\ \E t \in TaskIds : psf.task[t] = "ok"

\* C17: once the detector results are combined, every failed detector has a
\* processing_errors row for the file's hash, coarse_types is the union of
\* what the detectors that succeeded returned, and the handlers started are
\* those of that union.
C17_DetectorFailureJournaled ==
  psf.pc \in {"gather", "journal", "ok"} =>
    /\ \A k \in DOMAIN detector_names :
         psf.det[k] = "failed" =>
           \E e \in Rows(processing_errors) :
             e.hash = RoutedFile /\ e.task_name = "detector_error_" \o detector_names[k]
    /\ psf.coarse_types =
         UNION {psf.answer[k] : k \in {j \in DOMAIN detector_names : psf.det[j] = "ok"}}
    /\ \A t \in TaskIds : psf.task[t] # "none" <=> t \in Dispatched(psf.coarse_types)

\* the handlers have been started after a detector failed and another
\* returned a coarse type
C17_Witness ==
  /\ psf.pc = "gather"
  /\ \E k \in DOMAIN detector_names : psf.det[k] = "failed"
  /\ psf.coarse_types # {}

(***************************************************************************)
(* P0 add_disk_dataset: the command that records a dataset and runs its     *)
(* IngestDiskDataset workflow.  A name is the sequence of its characters, a *)
(* path the sequence of its components.                                     *)
(***************************************************************************)
\* [a-zA-Z0-9] among the characters of Names
IsAlnum(c) == c \in {"a", "b", "B"}

RECURSIVE SkipNonAlnum(_)
SkipNonAlnum(s) ==
  IF s # << >> /\ ~IsAlnum(Head(s)) THEN SkipNonAlnum(Tail(s)) ELSE s

\* re.sub(r"[^a-zA-Z0-9]+", "_", name)
RECURSIVE SubNonAlnum(_)
SubNonAlnum(s) ==
  IF s = << >> THEN << >>
  ELSE IF IsAlnum(Head(s)) THEN <<Head(s)>> \o SubNonAlnum(Tail(s))
  ELSE <<"_">> \o SubNonAlnum(SkipNonAlnum(s))

RECURSIVE LStrip(_)
LStrip(s) == IF s # << >> /\ Head(s) = "_" THEN LStrip(Tail(s)) ELSE s

RECURSIVE RStrip(_)
RStrip(s) ==
  IF s # << >> /\ s[Len(s)] = "_" THEN RStrip(SubSeq(s, 1, Len(s) - 1)) ELSE s

Lower(c) == IF c = "B" THEN "b" ELSE c

\* _slugify_dataset_name
slugify_dataset_name(name) ==
  LET slug == [k \in DOMAIN RStrip(LStrip(SubNonAlnum(name))) |->
                 Lower(RStrip(LStrip(SubNonAlnum(name)))[k])]
  IN IF slug = << >> THEN <<"d", "a", "t", "a", "s", "e", "t">> ELSE slug

\* the paths a call can be given: /x and /y are directories, /f is a file
Paths == {<<"x">>, <<"y">>, <<"x", ".">>, <<"f">>}

\* os.path.abspath
abspath(p) == SelectSeq(p, LAMBDA c : c # ".")

\* os.path.isdir
isdir(p) == p \in {<<"x">>, <<"y">>}

notCli == <<scanVars, planVars, execVars, epVars, routerVars, moreVars>>

InitCli == InitScan

\* add_disk_dataset is called: a name that is not its own slug and a path
\* that is no directory raise click.ClickException
CliCall(dataset_name, path) ==
  /\ cli.pc = "idle" /\ cli.calls < MaxAddCalls
  /\ cli' = IF slugify_dataset_name(dataset_name) # dataset_name
               \/ ~isdir(abspath(path))
              THEN [cli EXCEPT !.exit = "error", !.calls = @ + 1,
                               !.dataset_name = dataset_name, !.path = path,
                               !.existing = FALSE]
              ELSE [cli EXCEPT !.pc = "query", !.exit = "none", !.calls = @ + 1,
                               !.dataset_name = dataset_name,
                               !.path = abspath(path), !.existing = FALSE]
  /\ UNCHANGED <<notCli, dataset, wf>>

\* what the command does with the result of the duplicate check: a warning
DuplicateFound(existing) == [cli EXCEPT !.pc = "insert", !.existing = existing]

\* the duplicate check: a row with the same dataset_name or dataset_path
CliQuery ==
  /\ cli.pc = "query"
  /\ cli' = DuplicateFound(\E r \in Rows(dataset) :
                              \/ r.dataset_name = cli.dataset_name
                              \/ r.dataset_path = cli.path)
  /\ UNCHANGED <<notCli, dataset, wf>>

\* insert_arrow("dataset", table)
CliInsert ==
  /\ cli.pc = "insert"
  /\ dataset' = AddRows(dataset,
       {[collection_dataset |-> slugify_dataset_name(cli.dataset_name),
         dataset_name |-> cli.dataset_name, dataset_path |-> cli.path]})
  /\ cli' = [cli EXCEPT !.pc = "start"]
  /\ UNCHANGED <<notCli, wf>>

\* execute_workflow with id ingest-disk-<name>: a new run unless the id has
\* a run that is open (USE_EXISTING) or completed (ALLOW_DUPLICATE_FAILED_ONLY
\* rejects the start)
CliStartWorkflow ==
  /\ cli.pc = "start"
  /\ LET w == wf[cli.dataset_name]
     IN /\ wf' = IF w.status \in {"none", "failed"}
                   THEN [wf EXCEPT ![cli.dataset_name] =
                           [status |-> "running", runs |-> w.runs + 1]]
                   ELSE wf
        /\ cli' = IF w.status = "completed"
                    THEN [cli EXCEPT !.pc = "idle", !.exit = "error"]
                    ELSE [cli EXCEPT !.pc = "wait"]
  /\ UNCHANGED <<notCli, dataset>>

\* an IngestDiskDataset workflow completes or fails
WfEnds(n, ok) ==
  /\ wf[n].status = "running"
  /\ wf' = [wf EXCEPT ![n].status = IF ok THEN "completed" ELSE "failed"]
  /\ UNCHANGED <<notCli, dataset, cli>>

\* execute_workflow returns the result of the workflow or raises its failure
CliReturn ==
  /\ cli.pc = "wait"
  /\ wf[cli.dataset_name].status \in {"completed", "failed"}
  /\ cli' = [cli EXCEPT !.pc = "idle",
                        !.exit = IF wf[cli.dataset_name].status = "completed"
                                   THEN "ok" ELSE "error"]
  /\ UNCHANGED <<notCli, dataset, wf>>

\* the command is interrupted while it waits; the workflow goes on
CliInterrupt ==
  /\ cli.pc = "wait"
  /\ cli' = [cli EXCEPT !.pc = "idle", !.exit = "error"]
  /\ UNCHANGED <<notCli, dataset, wf>>

NextCli ==
  \/ \E dataset_name \in Names, path \in Paths : CliCall(dataset_name, path)
  \/ CliQuery
  \/ CliInsert
  \/ CliStartWorkflow
  \/ \E n \in Names, ok \in BOOLEAN : WfEnds(n, ok)
  \/ CliReturn
  \/ CliInterrupt

SpecCli == InitCli /\ [][NextCli]_vars

(***************************************************************************)
(* Claims about add_disk_dataset (checked under SpecCli).                   *)
(***************************************************************************)
\* C20: a call that finds a dataset row with its name or its path inserts no
\* row and starts no workflow, and no two dataset rows share a name or a
\* path.
C20_DatasetUniqueness ==
  /\ cli.existing => cli.pc \notin {"start", "wait"}
  /\ \A r \in Rows(dataset) :
       /\ dataset[r] = 1
       /\ \A q \in Rows(dataset) \ {r} :
            q.dataset_name # r.dataset_name /\ q.dataset_path # r.dataset_path

\* a second call with the path of an existing dataset has started a workflow
C20_Witness ==
  /\ cli.existing /\ cli.pc = "wait"
  /\ BagCardinality(dataset) = 2

(***************************************************************************)
(* P3 PdfProcessingAndScan: the branch by size and page count, and          *)
(* pdf_large_split_to_chunks.                                               *)
(***************************************************************************)
SMALL_BYTES == 64 * 1024 * 1024

\* _compute_pages_per_chunk: 32 * 1024 * 1024
CHUNK_BYTES == 32 * 1024 * 1024

\* the page counts and the sizes of the PDFs
PdfPageCounts ==
  (1..SmallPdfPages) \cup {499, 500, 501, 999, 1000, 1001, 1200, MaxPdfPages}

PdfSizes ==
  {k * CHUNK_BYTES + d : k \in 0..MaxPdfChunks, d \in {0, 1}} \cup {80 * 1024 * 1024}

\* math.ceil(a / b) for a >= 0, b > 0
Ceil(a, b) == (a + b - 1) \div b

Max(a, b) == IF a >= b THEN a ELSE b

Min(a, b) == IF a <= b THEN a ELSE b

\* (mutant of compute_pages_per_chunk: the chunks are counted by size only)
compute_pages_per_chunk_BySize(file_size_bytes, page_count) ==
  Max(1, Ceil(page_count, Max(1, Ceil(file_size_bytes, CHUNK_BYTES))))

\* _compute_pages_per_chunk
compute_pages_per_chunk(file_size_bytes, page_count) ==
  IF page_count <= 0 THEN MAX_CHUNK_PAGES
  ELSE LET chunks_by_size == Max(1, Ceil(file_size_bytes, CHUNK_BYTES))
           chunks_by_pages == Max(1, Ceil(page_count, MAX_CHUNK_PAGES))
           chunks == Max(chunks_by_size, chunks_by_pages)
           pages_per_chunk == Max(1, Ceil(page_count, chunks))
       IN Min(pages_per_chunk, MAX_CHUNK_PAGES)

\* f"chunk_{i+1}_{a}-{b}.pdf"
ChunkName(i, a, b) ==
  "chunk_" \o ToString(i) \o "_" \o ToString(a) \o "-" \o ToString(b) \o ".pdf"

\* pdf_get_metadata_and_store returns page_count and size_bytes
PdfStart(size_bytes, page_count) ==
  /\ pdf.pc = "idle"
  /\ pdf' = [pdf EXCEPT !.pc = "branch", !.size_bytes = size_bytes,
                        !.page_count = page_count]
  /\ UNCHANGED notPdf

\* the branch by size and page count
PdfBranch ==
  /\ pdf.pc = "branch"
  /\ pdf' = IF pdf.size_bytes < SMALL_BYTES \/ pdf.page_count < SMALL_PAGES
              THEN [pdf EXCEPT !.pc = "small", !.path = "small"]
              ELSE [pdf EXCEPT !.pc = "split", !.path = "large"]
  /\ UNCHANGED notPdf

\* pdf_small_extract_text_and_images returns
PdfSmall ==
  /\ pdf.pc = "small"
  /\ pdf' = [pdf EXCEPT !.pc = "done"]
  /\ UNCHANGED notPdf

\* pdf_large_split_to_chunks is called with a size and a page count
SplitCall(size_bytes, page_count) ==
  /\ pdf.pc = "idle"
  /\ pdf' = [pdf EXCEPT !.pc = "split", !.size_bytes = size_bytes,
                        !.page_count = page_count]
  /\ UNCHANGED notPdf

\* pages_per_chunk is computed and the loop over the ranges starts at page 1
SplitBegin ==
  /\ pdf.pc = "split"
  /\ pdf' = [pdf EXCEPT !.pc = "ranges", !.a = 1,
               !.pages_per_chunk = compute_pages_per_chunk(pdf.size_bytes,
                                                           pdf.page_count)]
  /\ UNCHANGED notPdf

\* while a <= page_count: one range
SplitRange ==
  /\ pdf.pc = "ranges"
  /\ pdf' = IF pdf.a <= pdf.page_count
              THEN LET b == Min(pdf.page_count, pdf.a + pdf.pages_per_chunk - 1)
                   IN [pdf EXCEPT !.ranges = Append(@, <<pdf.a, b>>), !.a = b + 1]
              ELSE [pdf EXCEPT !.pc = "files"]
  /\ UNCHANGED notPdf

\* qpdf writes the chunk file of every range and the activity returns
SplitFiles ==
  /\ pdf.pc = "files"
  /\ pdf' = [pdf EXCEPT !.pc = "done",
               !.chunks = [i \in DOMAIN pdf.ranges |->
                             ChunkName(i, pdf.ranges[i][1], pdf.ranges[i][2])]]
  /\ UNCHANGED notPdf

NextPdf ==
  \/ \E size_bytes \in PdfSizes, page_count \in PdfPageCounts \cup {0} :
       PdfStart(size_bytes, page_count)
  \/ PdfBranch
  \/ PdfSmall
  \/ SplitBegin
  \/ SplitRange
  \/ SplitFiles

SpecPdf == InitScan /\ [][NextPdf]_vars

NextPdfSplit ==
  \/ \E size_bytes \in PdfSizes, page_count \in PdfPageCounts :
       SplitCall(size_bytes, page_count)
  \/ SplitBegin
  \/ SplitRange
  \/ SplitFiles

SpecPdfSplit == InitScan /\ [][NextPdfSplit]_vars

(***************************************************************************)
(* Claims about the PDF parser (C21 under SpecPdf, C22 under SpecPdfSplit). *)
(***************************************************************************)
\* C21: PdfProcessingAndScan takes the small path exactly when size < 64 MiB
\* and pages < 1000 both hold, and the chunk-splitting path otherwise.
C21_PdfPathSelection ==
  pdf.path # "none" =>
    (pdf.path = "small" <=>
       pdf.size_bytes < SMALL_BYTES /\ pdf.page_count < SMALL_PAGES)

\* a PDF of 64 MiB or more with fewer than 1000 pages has been routed
C21_Witness ==
  /\ pdf.path # "none"
  /\ pdf.size_bytes >= SMALL_BYTES /\ pdf.page_count < SMALL_PAGES

\* min(500, ceil(pages / chunks)), chunks = max(ceil(size / 32 MiB), ceil(pages / 500))
RangeLimit ==
  Min(MAX_CHUNK_PAGES,
      Ceil(pdf.page_count, Max(Ceil(pdf.size_bytes, CHUNK_BYTES),
                               Ceil(pdf.page_count, MAX_CHUNK_PAGES))))

ItemPaths == {<<"d.pdf">>, <<"a", "x.txt">>, <<"a", "b", "c", "d.pdf">>,
              <<"a", "b", "y">>, <<"e", "z">>}

RootPath == << >>

\* os.path.dirname of an absolute path
dirname(path) == IF path = RootPath THEN RootPath ELSE SubSeq(path, 1, Len(path) - 1)

\* while parent_path != '/': parent_path = dirname(parent_path); add it
RECURSIVE Climb(_)
Climb(parent_path) ==
  IF parent_path = RootPath THEN {}
  ELSE {dirname(parent_path)} \cup Climb(dirname(parent_path))

\* what the loop adds for one path: its dirname, then what the while adds
ParentPaths(path) == {dirname(path)} \cup Climb(dirname(path))

\* the row of an item comes back from file_types JOIN vfs_files
IppStart(file_paths) ==
  /\ ipp.pc = "idle"
  /\ ipp' = [ipp EXCEPT !.pc = "loop", !.file_paths = file_paths, !.todo = file_paths]
  /\ UNCHANGED notPath

\* for pp in item['file_paths']: one path
IppPath(path) ==
  /\ ipp.pc = "loop" /\ path \in ipp.todo
  /\ ipp' = [ipp EXCEPT !.todo = @ \ {path},
                        !.item_parent_paths = @ \cup ParentPaths(path)]
  /\ UNCHANGED notPath

\* the loop has ended: file_paths of the row is built from item_parent_paths
IppRow ==
  /\ ipp.pc = "loop" /\ ipp.todo = {}
  /\ ipp' = [ipp EXCEPT !.pc = "done"]
  /\ UNCHANGED notPath

NextPaths ==
  \/ \E file_paths \in SUBSET ItemPaths \ {{}} : IppStart(file_paths)
  \/ \E path \in ItemPaths : IppPath(path)
  \/ IppRow

SpecPaths == InitScan /\ [][NextPaths]_vars

\* the strict ancestor directories of a path, without the root
StrictAncestors(path) == {SubSeq(path, 1, k) : k \in 1..(Len(path) - 1)}

\* C23: the paths whose ids index_metadatas writes to doc_metadata.file_paths
\* are exactly the strict ancestor directories, without the root, of the
\* vfs paths of the file.
C23_ParentPathExpansion ==
  ipp.pc = "done" =>
    ipp.item_parent_paths = UNION {StrictAncestors(path) : path \in ipp.file_paths}

\* the row of a file whose only path is /a/b/c/d.pdf has been built
C23_Witness ==
  /\ ipp.pc = "done"
  /\ ipp.file_paths = {<<"a", "b", "c", "d.pdf">>}

(***************************************************************************)
(* P4 string term interning: get_string_term_ids on one (dataset, field).   *)
(* hash_string_to_uint63 is a fixed function of the value; the model draws  *)
(* it once, from every assignment of ids to the values in use, so that two  *)
(* values may or may not share an id.                                       *)
(***************************************************************************)
MaxTermIds == 3
MaxTermCalls == 2

TermValues == {"x", "y", "z"}
TermIds == 1..MaxTermIds

hash_string_to_uint63(string_value) == term_hash[string_value]

\* the hash function of this behaviour
TermsHash(h) ==
  /\ term_hash = << >>
  /\ term_hash' = h
  /\ UNCHANGED <<notTerm, string_term_text_to_id, string_term_id_to_text, gst,
                 returned, termCalls>>

GstCall(c, term_values) ==
  /\ term_hash # << >>
  /\ gst[c].pc = "idle"
  /\ termCalls < MaxTermCalls
  /\ termCalls' = termCalls + 1
  /\ gst' = [gst EXCEPT ![c] = [IdleGst EXCEPT !.pc = "fetch", !.term_values = term_values]]
  /\ UNCHANGED <<notTerm, term_hash, string_term_text_to_id, string_term_id_to_text,
                 returned>>

\* remaining_term_values = term_values - set(existing_term_ids.keys())
remaining_term_values_All(term_values, existing_term_ids) == term_values

remaining_term_values(term_values, existing_term_ids) ==
  term_values \ DOMAIN existing_term_ids

\* {**existing_term_ids, **new_term_ids}
MergeDicts(existing_term_ids, new_term_ids) ==
  [v \in (DOMAIN existing_term_ids) \cup (DOMAIN new_term_ids) |->
     IF v \in DOMAIN new_term_ids THEN new_term_ids[v] ELSE existing_term_ids[v]]

Pairs(dict) == {<<v, dict[v]>> : v \in DOMAIN dict}

\* fetch_string_term_ids: the rows of the requested values, as a dict (one id
\* for each value found), then the values that remain; without remaining
\* values the call returns the existing ids
GstFetch(c) ==
  /\ gst[c].pc = "fetch"
  /\ LET rows == {r \in Rows(string_term_text_to_id) : r.term_value \in gst[c].term_values}
         found == {r.term_value : r \in rows}
     IN \E existing_term_ids \in [found -> TermIds] :
          /\ \A v \in found :
               [term_value |-> v, term_id |-> existing_term_ids[v]] \in rows
          /\ LET remaining == remaining_term_values(gst[c].term_values, existing_term_ids)
             IN IF remaining = {}
                THEN /\ gst' = [gst EXCEPT ![c].pc = "done",
                                           ![c].existing_term_ids = existing_term_ids,
                                           ![c].result = existing_term_ids]
                     /\ returned' = returned \cup Pairs(existing_term_ids)
                ELSE /\ gst' = [gst EXCEPT ![c].pc = "text_to_id",
                                           ![c].existing_term_ids = existing_term_ids,
                                           ![c].remaining_term_values = remaining]
                     /\ UNCHANGED returned
  /\ UNCHANGED <<notTerm, term_hash, string_term_text_to_id, string_term_id_to_text,
                 termCalls>>

\* create_string_term_ids, first insert: one row for each remaining value
GstInsertTextToId(c) ==
  /\ gst[c].pc = "text_to_id"
  /\ LET text_to_id == [text \in gst[c].remaining_term_values |->
                          hash_string_to_uint63(text)]
     IN /\ string_term_text_to_id' = string_term_text_to_id (+)
             SetToBag({[term_value |-> text, term_id |-> text_to_id[text]] :
                         text \in DOMAIN text_to_id})
        /\ gst' = [gst EXCEPT ![c].pc = "id_to_text", ![c].new_term_ids = text_to_id]
  /\ UNCHANGED <<notTerm, term_hash, string_term_id_to_text, returned, termCalls>>

\* create_string_term_ids, second insert: id_to_text is a dict keyed by the id,
\* so of the values of one id the last the loop over the set met is kept;
\* then the call returns the merged dict
GstInsertIdToText(c) ==
  /\ gst[c].pc = "id_to_text"
  /\ LET text_to_id == gst[c].new_term_ids
         ids == {text_to_id[text] : text \in DOMAIN text_to_id}
     IN \E id_to_text \in [ids -> DOMAIN text_to_id] :
          /\ \A text_id \in ids : text_to_id[id_to_text[text_id]] = text_id
          /\ string_term_id_to_text' = string_term_id_to_text (+)
               SetToBag({[term_id |-> text_id, term_value |-> id_to_text[text_id]] :
                           text_id \in ids})
  /\ LET result == MergeDicts(gst[c].existing_term_ids, gst[c].new_term_ids)
     IN /\ gst' = [gst EXCEPT ![c].pc = "done", ![c].result = result]
        /\ returned' = returned \cup Pairs(result)
  /\ UNCHANGED <<notTerm, term_hash, string_term_text_to_id, termCalls>>

\* the activity goes on with the ids
GstDone(c) ==
  /\ gst[c].pc = "done"
  /\ gst' = [gst EXCEPT ![c] = IdleGst]
  /\ UNCHANGED <<notTerm, term_hash, string_term_text_to_id, string_term_id_to_text,
                 returned, termCalls>>

NextTerms ==
  \/ \E h \in [TermValues -> TermIds] : TermsHash(h)
  \/ \E c \in Interners, term_values \in SUBSET TermValues : GstCall(c, term_values)
  \/ \E c \in Interners : GstFetch(c)
  \/ \E c \in Interners : GstInsertTextToId(c)
  \/ \E c \in Interners : GstInsertIdToText(c)
  \/ \E c \in Interners : GstDone(c)

SpecTerms == InitScan /\ [][NextTerms]_vars

NoCallRuns == \A c \in Interners : gst[c].pc \in {"idle", "done"}

\* C24: once no call is running, every string_term_text_to_id row v -> i has
\* a string_term_id_to_text row i -> v, and no row i -> w for another value,
\* whatever ids the hash gives, two values with one id included.
C24_InterningRoundTrip ==
  NoCallRuns =>
    \A r \in Rows(string_term_text_to_id) :
      /\ [term_id |-> r.term_id, term_value |-> r.term_value]
           \in Rows(string_term_id_to_text)
      /\ \A q \in Rows(string_term_id_to_text) :
           q.term_id = r.term_id => q.term_value = r.term_value

\* two values of one id have been interned and no call is running
C24_Witness ==
  /\ NoCallRuns
  /\ \E r, q \in Rows(string_term_text_to_id) :
       r.term_id = q.term_id /\ r.term_value # q.term_value

\* C25: a finished get_string_term_ids call returns an id for every requested
\* value and for nothing else; a call inserts only values its query found no
\* mapping for; and a value has one id in every call and in every row, under
\* every interleaving of two calls.
C25_TermIdsFullAndStable ==
  /\ \A c \in Interners :
       /\ gst[c].pc = "done" => DOMAIN gst[c].result = gst[c].term_values
       /\ (DOMAIN gst[c].new_term_ids) \cap (DOMAIN gst[c].existing_term_ids) = {}
       /\ (DOMAIN gst[c].new_term_ids) \subseteq gst[c].term_values
  /\ \A p \in returned, q \in returned : p[1] = q[1] => p[2] = q[2]
  /\ \A r \in Rows(string_term_text_to_id) : \A p \in returned :
       p[1] = r.term_value => p[2] = r.term_id

\* two calls at the same time both found "x" missing, both inserted it, and
\* both have returned
C25_Witness ==
  /\ \A c \in Interners : gst[c].pc = "done" /\ "x" \in DOMAIN gst[c].new_term_ids
  /\ \E r \in Rows(string_term_text_to_id) :
       r.term_value = "x" /\ CopiesIn(r, string_term_text_to_id) = 2

(***************************************************************************)
(* P3 extract_plaintext_chunks / insert_text_chunks.  A byte string is a    *)
(* sequence of byte values; a str is a sequence of characters, a character  *)
(* being the sequence of the bytes of its UTF-8 encoding.                   *)
(***************************************************************************)
MaxFileBytes == 4
MaxChunkBytes == 3

\* space, a, the lead byte of a two-byte character, the lead byte of a
\* three-byte character, a continuation byte
FileByteValues == {32, 97, 195, 226, 169}

IsAscii(b) == b < 128
IsCont(b) == b >= 128 /\ b <= 191
IsLead2(b) == b >= 194 /\ b <= 223
IsLead3(b) == b >= 225 /\ b <= 236

FileBytes == UNION {[1..n -> FileByteValues] : n \in 1..MaxFileBytes}

Drop(seq, n) == SubSeq(seq, n + 1, Len(seq))

\* bytes.decode("utf-8", errors="ignore"): the characters of the well-formed
\* sequences, every byte of an ill-formed or truncated one left out
RECURSIVE decode_ignore(_)
decode_ignore(seg) ==
  IF seg = << >> THEN << >>
  ELSE IF IsAscii(seg[1]) THEN <<<<seg[1]>>>> \o decode_ignore(Drop(seg, 1))
  ELSE IF IsLead2(seg[1]) /\ Len(seg) >= 2 /\ IsCont(seg[2])
    THEN <<SubSeq(seg, 1, 2)>> \o decode_ignore(Drop(seg, 2))
  ELSE IF IsLead3(seg[1]) /\ Len(seg) >= 3 /\ IsCont(seg[2]) /\ IsCont(seg[3])
    THEN <<SubSeq(seg, 1, 3)>> \o decode_ignore(Drop(seg, 3))
  ELSE decode_ignore(Drop(seg, 1))

\* str.encode("utf-8")
RECURSIVE encode(_)
encode(text) == IF text = << >> THEN << >> ELSE text[1] \o encode(Tail(text))

IsSpace(b) == b \in {9, 10, 11, 12, 13, 32}

\* bytes.strip()
RECURSIVE lstrip(_)
lstrip(data) == IF data # << >> /\ IsSpace(data[1]) THEN lstrip(Tail(data)) ELSE data

RECURSIVE rstrip(_)
rstrip(data) ==
  IF data # << >> /\ IsSpace(data[Len(data)])
  THEN rstrip(SubSeq(data, 1, Len(data) - 1)) ELSE data

strip(data) == rstrip(lstrip(data))

\* extract_plaintext_chunks reads the file; insert_text_chunks strips the
\* bytes and returns 0 when fewer than two are left
ChunkCall(file, chunk_bytes) ==
  /\ utf.pc = "idle"
  /\ LET data == strip(file)
     IN utf' = [utf EXCEPT !.pc = IF Len(data) < 2 THEN "done" ELSE "split",
                           !.file = file, !.max_bytes = chunk_bytes, !.data = data]
  /\ UNCHANGED notChunk

\* _split_utf8_bytes_to_chunks: for i in range(0, len(data), max_bytes)
ChunkSeg ==
  /\ utf.pc = "split" /\ utf.i < Len(utf.data)
  /\ LET seg == SubSeq(utf.data, utf.i + 1, Min(Len(utf.data), utf.i + utf.max_bytes))
     IN utf' = [utf EXCEPT !.i = @ + utf.max_bytes,
                           !.chunks = Append(@, decode_ignore(seg))]
  /\ UNCHANGED notChunk

\* the chunks are inserted as the pages start_page_id, start_page_id + 1, ...
ChunkInsert ==
  /\ utf.pc = "split" /\ utf.i >= Len(utf.data)
  /\ utf' = [utf EXCEPT !.pc = "done", !.text_content = utf.chunks]
  /\ UNCHANGED notChunk

NextChunks ==
  \/ \E file \in FileBytes, chunk_bytes \in 1..MaxChunkBytes :
       ChunkCall(file, chunk_bytes)
  \/ ChunkSeg
  \/ ChunkInsert

SpecChunks == InitScan /\ [][NextChunks]_vars

\* the pages in page order, each encoded again, one after the other
RECURSIVE PagesBytes(_)
PagesBytes(pages) ==
  IF pages = << >> THEN << >> ELSE encode(pages[1]) \o PagesBytes(Tail(pages))

\* C26: the pages insert_text_chunks emits, encoded again and concatenated,
\* are the bytes of the file without its ill-formed sequences - all of the
\* file when it is valid UTF-8 - and no page is longer than the chunk limit.
C26_ChunkerRoundTrip ==
  utf.pc = "done" =>
    /\ PagesBytes(utf.text_content) = encode(decode_ignore(utf.file))
    /\ \A k \in 1..Len(utf.text_content) : Len(encode(utf.text_content[k])) <= utf.max_bytes

\* the file "a" followed by a two-byte character, cut after two bytes
C26_Witness ==
  /\ utf.pc = "done"
  /\ utf.file = <<97, 195, 169>>
  /\ utf.max_bytes = 2
  /\ utf.text_content = << <<<<97>>>>, << >> >>

(***************************************************************************)
(* The worker command without a worker type (main.py): five child worker    *)
(* processes are spawned, then polled once a second, and an exited child is *)
(* spawned again after ten seconds.  Time is counted in whole seconds from  *)
(* the end of the initial spawn loop: sleep(1) lasts a second, a Popen call *)
(* of the monitor loop returns at once or after a second.  procs[pid] is    *)
(* the child with that pid; sup.p is the local variable that holds a Popen  *)
(* result before it is recorded in a slot.                                  *)
(***************************************************************************)
MaxExits == 2
MaxClock == 22
COOLDOWN == 10
SLEEP == 1

worker_types == <<"tika", "easyocr", "indexing", "common", "common">>

Slots == 1..Len(worker_types)

\* subprocess.Popen(cmd) for slot k: a new live child
Popen(k) == Append(procs, [slot |-> k, state |-> "live"])

\* the next slot of the for loop, or the end of the loop
SupNext(k, after) ==
  IF k < Len(worker_types) THEN [sup EXCEPT !.k = k + 1, !.p = NoProc]
  ELSE [sup EXCEPT !.pc = after, !.k = 0, !.p = NoProc]

SupStart ==
  /\ sup.pc = "idle"
  /\ sup' = [sup EXCEPT !.pc = "spawn", !.k = 1]
  /\ UNCHANGED <<notSup, workers, procs, clock, exits>>

\* initial spawn set: p = subprocess.Popen(cmd)
SupSpawn ==
  /\ sup.pc = "spawn" /\ sup.p = NoProc
  /\ procs' = Popen(sup.k)
  /\ sup' = [sup EXCEPT !.p = Len(procs) + 1]
  /\ UNCHANGED <<notSup, workers, clock, exits>>

\* workers.append(...)
SupAppend ==
  /\ sup.pc = "spawn" /\ sup.p # NoProc
  /\ workers' = Append(workers, [type |-> worker_types[sup.k], proc |-> sup.p,
                                 restart_at |-> NoTime, seen_at |-> NoTime,
                                 pass_at |-> NoTime, restarted_at |-> NoTime])
  /\ sup' = SupNext(sup.k, "now")
  /\ UNCHANGED <<notSup, procs, clock, exits>>

\* while True: now = time.time()
SupNow ==
  /\ sup.pc = "now"
  /\ sup' = [sup EXCEPT !.pc = "for", !.k = 1, !.now = clock]
  /\ UNCHANGED <<notSup, workers, procs, clock, exits>>

\* a slot with a process: p.poll(); an ended process leaves the slot and
\* restart_at is set (seen_at is the time the exit was seen, pass_at the now
\* of that pass)
SupPoll ==
  /\ sup.pc = "for" /\ sup.p = NoProc
  /\ workers[sup.k].proc # NoProc
  /\ workers' = IF procs[workers[sup.k].proc].state # "live"
                THEN [workers EXCEPT ![sup.k].proc = NoProc,
                                     ![sup.k].restart_at = sup.now + COOLDOWN,
                                     ![sup.k].seen_at = clock,
                                     ![sup.k].pass_at = sup.now,
                                     ![sup.k].restarted_at = NoTime]
                ELSE workers
  /\ sup' = SupNext(sup.k, "sleep")
  /\ UNCHANGED <<notSup, procs, clock, exits>>

\* a slot without a process whose restart is not due
SupSkip ==
  /\ sup.pc = "for" /\ sup.p = NoProc
  /\ workers[sup.k].proc = NoProc
  /\ ~(workers[sup.k].restart_at # NoTime /\ sup.now >= workers[sup.k].restart_at)
  /\ sup' = SupNext(sup.k, "sleep")
  /\ UNCHANGED <<notSup, workers, procs, clock, exits>>

\* elif not shutting_down and w["restart_at"] is not None and now >= w["restart_at"]
SupDue ==
  /\ sup.pc = "for" /\ sup.p = NoProc
  /\ workers[sup.k].proc = NoProc
  /\ workers[sup.k].restart_at # NoTime /\ sup.now >= workers[sup.k].restart_at

\* p2 = subprocess.Popen(w["cmd"]) (restarted_at is the time of the call)
SupRestart(d) ==
  /\ SupDue
  /\ clock < MaxClock
  /\ procs' = Popen(sup.k)
  /\ sup' = [sup EXCEPT !.p = Len(procs) + 1]
  /\ workers' = [workers EXCEPT ![sup.k].restarted_at = clock]
  /\ clock' = clock + d
  /\ UNCHANGED <<notSup, exits>>

\* w["proc"] = p2; w["restart_at"] = None
SupRecord ==
  /\ sup.pc = "for" /\ sup.p # NoProc
  /\ workers' = [workers EXCEPT ![sup.k].proc = sup.p, ![sup.k].restart_at = NoTime]
  /\ sup' = SupNext(sup.k, "sleep")
  /\ UNCHANGED <<notSup, procs, clock, exits>>

\* Popen raises: try again in 10 s
SupRestartFails ==
  /\ SupDue
  /\ workers' = [workers EXCEPT ![sup.k].restart_at = sup.now + COOLDOWN]
  /\ sup' = SupNext(sup.k, "sleep")
  /\ UNCHANGED <<notSup, procs, clock, exits>>

\* time.sleep(1)
SupSleep ==
  /\ sup.pc = "sleep"
  /\ clock < MaxClock
  /\ clock' = clock + SLEEP
  /\ sup' = [sup EXCEPT !.pc = "now"]
  /\ UNCHANGED <<notSup, workers, procs, exits>>

\* a child ends by itself
ChildExit(pid) ==
  /\ pid \in DOMAIN procs /\ procs[pid].state = "live"
  /\ exits < MaxExits
  /\ exits' = exits + 1
  /\ procs' = [procs EXCEPT ![pid].state = "exited"]
  /\ UNCHANGED <<notSup, sup, workers, clock>>

\* KeyboardInterrupt inside the try: every process that is in a slot is
\* killed, then waited for
SupCtrlC ==
  /\ sup.pc \in {"now", "for", "sleep"}
  /\ procs' = [pid \in DOMAIN procs |->
                 IF /\ procs[pid].state = "live"
                    /\ \E k \in DOMAIN workers : workers[k].proc = pid
                 THEN [procs[pid] EXCEPT !.state = "killed"] ELSE procs[pid]]
  /\ sup' = [sup EXCEPT !.pc = "ended", !.interrupted = sup.pc]
  /\ UNCHANGED <<notSup, workers, clock, exits>>

\* KeyboardInterrupt in the initial spawn loop, which is outside the try: the
\* command ends with the exception
SupCtrlCEarly ==
  /\ sup.pc = "spawn"
  /\ sup' = [sup EXCEPT !.pc = "ended", !.interrupted = sup.pc]
  /\ UNCHANGED <<notSup, workers, procs, clock, exits>>

NextSupervisor ==
  \/ SupStart
  \/ SupSpawn
  \/ SupAppend
  \/ SupNow
  \/ SupPoll
  \/ SupSkip
  \/ \E d \in 0..1 : SupRestart(d)
  \/ SupRecord
  \/ SupRestartFails
  \/ SupSleep
  \/ \E pid \in 1..(Len(worker_types) + MaxExits) : ChildExit(pid)
  \/ SupCtrlC
  \/ SupCtrlCEarly

SpecSupervisor == InitScan /\ [][NextSupervisor]_vars

LiveOf(k) == {pid \in DOMAIN procs : procs[pid].slot = k /\ procs[pid].state = "live"}

OneLivePerSlot == \A k \in Slots : Cardinality(LiveOf(k)) <= 1

\* a child is started again only while no Ctrl-C has occurred
NoStartAfterCtrlC ==
  [][sup.interrupted # "no" => \A pid \in DOMAIN procs' : pid \in DOMAIN procs]_vars

\* C27: a child is started again only while no Ctrl-C has occurred and never
\* earlier than 10 s after the supervisor saw its exit, and a slot has at
\* most one live process.
C27_RestartAfterCooldown ==
  /\ OneLivePerSlot
  /\ \A k \in DOMAIN workers :
       workers[k].restarted_at # NoTime =>
         workers[k].restarted_at >= workers[k].seen_at + COOLDOWN

\* what the code gives instead: a child is started again never earlier than
\* 10 s after the start of the pass of the monitor loop that saw its exit
RestartAfterPassCooldown ==
  \A k \in DOMAIN workers :
    workers[k].restarted_at # NoTime =>
      workers[k].restarted_at >= workers[k].pass_at + COOLDOWN

\* an exited child has been started again, and the new process is the one
\* live process of its slot, started less than 10 s after its exit was seen
C27_Witness ==
  \E k \in DOMAIN workers :
    /\ workers[k].restarted_at # NoTime
    /\ workers[k].restarted_at < workers[k].seen_at + COOLDOWN
    /\ workers[k].proc # NoProc
    /\ LiveOf(k) = {workers[k].proc}
    /\ procs[k].state = "exited"

\* C28: once Ctrl-C has ended the command, no child that was spawned is
\* still live, at whatever point of the command it arrived, and no child is
\* started afterwards.
C28_CtrlCKillsAll ==
  sup.interrupted # "no" => \A pid \in DOMAIN procs : procs[pid].state # "live"

\* Ctrl-C arrived between the Popen of a replacement and its recording: the
\* replacement lives on, in no slot
C28_Witness ==
  /\ sup.interrupted = "for"
  /\ sup.p # NoProc
  /\ procs[sup.p].state = "live"
  /\ \A pid \in DOMAIN procs : pid # sup.p => procs[pid].state # "live"

(***************************************************************************)
(* P4 IndexDatasetPlan and the workers of its activities: the task queue    *)
(* each activity is scheduled on, and the activities the workers of a queue *)
(* run at the same time.  iq.fut[t] is the activity task of future t.        *)
(***************************************************************************)
MaxIndexChunks == 2
INDEXING_CHUNK_SIZE == 100
INDEXING_WORKER_CONCURRENCY == 1
COMMON_WORKER_CONCURRENCY == 8
COMMON_WORKERS == 2
INDEXING_WORKERS == 1

\* the number of hashes fetch_plan_hashes returns
IndexPlanSizes ==
  {1, INDEXING_CHUNK_SIZE, INDEXING_CHUNK_SIZE + 1, MaxIndexChunks * INDEXING_CHUNK_SIZE}

\* the queue of the worker that runs IndexDatasetPlan: an activity without a
\* task_queue argument is scheduled on the queue of its workflow
WorkflowQueue == "processing-common-queue"

\* the activities each worker registers, and what it runs at the same time
QueueActivities(task_queue) ==
  IF task_queue = "processing-indexing-queue" THEN {"index_text_content"}
  ELSE {"fetch_plan_hashes", "index_metadatas"}

QueueSlots(task_queue) ==
  IF task_queue = "processing-indexing-queue"
  THEN INDEXING_WORKERS * INDEXING_WORKER_CONCURRENCY
  ELSE COMMON_WORKERS * COMMON_WORKER_CONCURRENCY

\* for chunk in range(0, len(plan_hashes), INDEXING_CHUNK_SIZE): the two
\* activities of each chunk
Futures(plan_hashes) ==
  LET chunks == Ceil(plan_hashes, INDEXING_CHUNK_SIZE)
  IN [t \in 1..(2 * chunks) |->
        [activity |-> IF t % 2 = 1 THEN "index_text_content" ELSE "index_metadatas",
         chunk |-> (t + 1) \div 2,
         task_queue |-> IF t % 2 = 1 THEN "processing-indexing-queue" ELSE WorkflowQueue,
         state |-> "scheduled",
         attempt |-> 1]]

\* fetch_plan_hashes has returned; every activity of every chunk is scheduled
IqSchedule(plan_hashes) ==
  /\ iq.pc = "idle"
  /\ iq' = [iq EXCEPT !.pc = "gather", !.plan_hashes = plan_hashes,
                      !.fut = Futures(plan_hashes)]
  /\ UNCHANGED notQueue

Running(task_queue) ==
  {t \in DOMAIN iq.fut : iq.fut[t].state = "running" /\ iq.fut[t].task_queue = task_queue}

\* a worker of the queue of the task, with a free slot, takes the task
IqRun(t) ==
  /\ iq.pc = "gather" /\ t \in DOMAIN iq.fut
  /\ iq.fut[t].state = "scheduled"
  /\ iq.fut[t].activity \in QueueActivities(iq.fut[t].task_queue)
  /\ Cardinality(Running(iq.fut[t].task_queue)) < QueueSlots(iq.fut[t].task_queue)
  /\ iq' = [iq EXCEPT !.fut[t].state = "running"]
  /\ UNCHANGED notQueue

\* the activity returns
IqReturn(t) ==
  /\ iq.pc = "gather" /\ t \in DOMAIN iq.fut
  /\ iq.fut[t].state = "running"
  /\ iq' = [iq EXCEPT !.fut[t].state = "done"]
  /\ UNCHANGED notQueue

\* the activity raises: RetryPolicy(maximum_attempts=2)
IqRaise(t) ==
  /\ iq.pc = "gather" /\ t \in DOMAIN iq.fut
  /\ iq.fut[t].state = "running"
  /\ iq' = IF iq.fut[t].attempt < index_maximum_attempts
           THEN [iq EXCEPT !.fut[t].state = "scheduled", !.fut[t].attempt = @ + 1]
           ELSE [iq EXCEPT !.fut[t].state = "failed"]
  /\ UNCHANGED notQueue

\* await gather(*fut, return_exceptions=True)
IqGathered ==
  /\ iq.pc = "gather"
  /\ \A t \in DOMAIN iq.fut : iq.fut[t].state \in {"done", "failed"}
  /\ iq' = [iq EXCEPT !.pc = "done"]
  /\ UNCHANGED notQueue

NextQueue ==
  \/ \E plan_hashes \in IndexPlanSizes : IqSchedule(plan_hashes)
  \/ \E t \in 1..(2 * MaxIndexChunks) : IqRun(t)
  \/ \E t \in 1..(2 * MaxIndexChunks) : IqReturn(t)
  \/ \E t \in 1..(2 * MaxIndexChunks) : IqRaise(t)
  \/ IqGathered

SpecQueue == InitScan /\ [][NextQueue]_vars

\* the activities that insert into doc_text_pages or doc_metadata
SearchWriters == {"index_text_content", "index_metadatas"}

RunningWriters ==
  {t \in DOMAIN iq.fut : iq.fut[t].state = "running" /\ iq.fut[t].activity \in SearchWriters}

\* C29: every activity that inserts into doc_text_pages or doc_metadata is
\* scheduled on processing-indexing-queue, whose worker runs one activity at
\* a time, so at most one of them runs at any moment.
C29_SingleSearchWriter ==
  /\ \A t \in DOMAIN iq.fut :
       iq.fut[t].activity \in SearchWriters =>
         iq.fut[t].task_queue = "processing-indexing-queue"
  /\ Cardinality(RunningWriters) <= 1

\* index_metadatas of two chunks and index_text_content run at the same time
C29_Witness ==
  /\ Cardinality(RunningWriters) = 3
  /\ Cardinality(Running("processing-indexing-queue")) = 1
  /\ Cardinality(Running(WorkflowQueue)) = 2

(***************************************************************************)
(* P2 download_plan_files and the step of ExecuteSinglePlan after it.       *)
(* dl.items are the items get_plan_items_metadata returned; dl.stored[h] is *)
(* the size of what the store of item h holds (the S3 object, or the        *)
(* blob_values row), Absent when it holds nothing; plan_dir[h] is the size  *)
(* of the file <item_hash> h in the directory of the plan, which may hold   *)
(* files of an earlier run.                                                 *)
(***************************************************************************)
DlHashes == <<"h1", "h2">>
DlSizes == {1, 2}
Absent == 0 - 1

\* s3_url of an item: an S3 url, an invalid one, or none (a blob_values blob)
DlUrls == {"s3://bucket/key", "bucket/key", ""}

DlItems ==
  {items \in [1..Len(DlHashes) -> [item_hash : {"h1", "h2"}, file_size_bytes : DlSizes,
                                   s3_url : DlUrls]] :
     \A i \in 1..Len(DlHashes) : items[i].item_hash = DlHashes[i]}

DlStores == [{"h1", "h2"} -> DlSizes \cup {Absent}]

\* _parse_s3_url gives a bucket and a key
ValidS3(s3_url) == s3_url = "s3://bucket/key"

\* the step before: get_plan_items_metadata has returned the items
DlStart(items, stored, left) ==
  /\ dl.pc = "idle"
  /\ dl' = [dl EXCEPT !.pc = "fetch", !.attempt = 1, !.items = items, !.stored = stored]
  /\ plan_dir' = left
  /\ UNCHANGED <<notDownload, parsed>>

\* the S3 jobs in the order of the items; fget_object raises for an object
\* that is not there
S3Jobs == SelectSeq(dl.items, LAMBDA it : ValidS3(it.s3_url))

S3Failure == {j \in DOMAIN S3Jobs : dl.stored[S3Jobs[j].item_hash] = Absent}

S3Fetched ==
  {S3Jobs[j].item_hash : j \in {i \in DOMAIN S3Jobs : \A f \in S3Failure : i < f}}

\* the blob_values rows of the other items: a file is written for each row
ChFetched ==
  {dl.items[i].item_hash : i \in {j \in DOMAIN dl.items :
     ~ValidS3(dl.items[j].s3_url) /\ dl.stored[dl.items[j].item_hash] # Absent}}

Written(hashes) ==
  [h \in (DOMAIN plan_dir) \cup hashes |-> IF h \in hashes THEN dl.stored[h] ELSE plan_dir[h]]

\* the activity fails: RetryPolicy(maximum_attempts=3), then the workflow fails
DlRaised ==
  IF dl.attempt < maximum_attempts
  THEN [dl EXCEPT !.pc = "fetch", !.attempt = @ + 1, !.k = 0]
  ELSE [dl EXCEPT !.pc = "failed"]

\* the downloads of one attempt
DlFetch ==
  /\ dl.pc = "fetch"
  /\ IF S3Failure # {}
     THEN /\ plan_dir' = Written(S3Fetched)
          /\ dl' = DlRaised
     ELSE /\ plan_dir' = Written(S3Fetched \cup ChFetched)
          /\ dl' = [dl EXCEPT !.pc = "verify", !.k = 1]
  /\ UNCHANGED <<notDownload, parsed>>

\* between two attempts the store of an item comes to hold its blob (the S3
\* object or the blob_values row arrives, or the store answers again)
DlStored(h, size) ==
  /\ dl.pc = "fetch" /\ dl.attempt > 1
  /\ h \in DOMAIN dl.stored /\ dl.stored[h] = Absent
  /\ dl' = [dl EXCEPT !.stored[h] = size]
  /\ UNCHANGED <<notDownload, plan_dir, parsed>>

\* (mutant of SizeVerified: a file of any size passes)
SizeVerified_Exists(it) == it.item_hash \in DOMAIN plan_dir

\* os.path.getsize(path) finds the file and actual == expected
SizeVerified(it) ==
  /\ it.item_hash \in DOMAIN plan_dir
  /\ plan_dir[it.item_hash] = it.file_size_bytes

\* verify sizes of all downloaded files: one item
DlVerify ==
  /\ dl.pc = "verify" /\ dl.k <= Len(dl.items)
  /\ dl' = IF SizeVerified(dl.items[dl.k]) THEN [dl EXCEPT !.k = @ + 1] ELSE DlRaised
  /\ UNCHANGED <<notDownload, plan_dir, parsed>>

\* return {"out_dir": out_dir, "count": len(items)}
DlReturn ==
  /\ dl.pc = "verify" /\ dl.k > Len(dl.items)
  /\ dl' = [dl EXCEPT !.pc = "process"]
  /\ UNCHANGED <<notDownload, plan_dir, parsed>>

\* ProcessItemsBatched starts the ParseSingleFile child of an item
DlParse(h) ==
  /\ dl.pc = "process"
  /\ h \notin parsed /\ \E i \in DOMAIN dl.items : dl.items[i].item_hash = h
  /\ parsed' = parsed \cup {h}
  /\ UNCHANGED <<notDownload, dl, plan_dir>>

NextDownload ==
  \/ \E items \in DlItems, stored \in DlStores :
       \E present \in SUBSET {"h1", "h2"} : \E left \in [present -> DlSizes] :
         DlStart(items, stored, left)
  \/ DlFetch
  \/ \E h \in {"h1", "h2"}, size \in DlSizes : DlStored(h, size)
  \/ DlVerify
  \/ DlReturn
  \/ \E h \in {"h1", "h2"} : DlParse(h)

SpecDownload == InitScan /\ [][NextDownload]_vars

\* C30: download_plan_files has returned, or a ParseSingleFile child has been
\* started, only if every item of the plan has a file of its item_hash in the
\* directory of the plan whose size is the blob_size_bytes of the item.
C30_DownloadVerified ==
  (dl.pc = "process" \/ parsed # {}) =>
    \A i \in DOMAIN dl.items :
      /\ dl.items[i].item_hash \in DOMAIN plan_dir
      /\ plan_dir[dl.items[i].item_hash] = dl.items[i].file_size_bytes

\* a download whose first two attempts failed verified at the third, and
\* the children of both items have been started
C30_Witness ==
  /\ dl.pc = "process"
  /\ dl.attempt = maximum_attempts
  /\ parsed = {"h1", "h2"}

\* ------------------------------------------------------------------
\* _batch_files_by_size: the file batches HandleFolders hands to its
\* HandleFiles children.  A file is its position in the listing; files[i]
\* is int(f.get("size", 0)) of the i-th file.
\* ------------------------------------------------------------------

BATCH_MAX_COUNT == 100

BATCH_MAX_BYTES == 50 * 1024 * 1024

MaxShortFiles == 3

ManyFiles == 201

BfSizes == {0, 1, BATCH_MAX_BYTES \div 2, BATCH_MAX_BYTES, BATCH_MAX_BYTES + 1}

BfShort(n) == UNION {[1..k -> BfSizes] : k \in 0..n}

BfCounts == {BATCH_MAX_COUNT - 1, BATCH_MAX_COUNT, BATCH_MAX_COUNT + 1, ManyFiles}

BfInputs ==
  BfShort(MaxShortFiles)
    \cup {[k \in 1..n |-> s] \o t : n \in BfCounts, s \in {0, 1}, t \in BfShort(1)}

NeedsFlush_Over(current, current_bytes, size) ==
  Len(current) > BATCH_MAX_COUNT \/ current_bytes + size > BATCH_MAX_BYTES

\* len(current) >= max_count or (current_bytes + size) > max_bytes
NeedsFlush(current, current_bytes, size) ==
  Len(current) >= BATCH_MAX_COUNT \/ current_bytes + size > BATCH_MAX_BYTES

BfCall ==
  /\ NothingMore
  /\ \E files \in BfInputs :
       bf' = [pc |-> "loop", files |-> files, i |-> 1, batches |-> << >>,
              current |-> << >>, current_bytes |-> 0]
  /\ UNCHANGED notBatch

\* one iteration of "for f in files"
BfFile ==
  /\ bf.pc = "loop"
  /\ bf.i <= Len(bf.files)
  /\ LET size == bf.files[bf.i]
         flushed == IF bf.current # << >> THEN Append(bf.batches, bf.current)
                    ELSE bf.batches
     IN  bf' =
           IF size > BATCH_MAX_BYTES
           THEN [bf EXCEPT !.batches = Append(flushed, <<bf.i>>),
                           !.current = IF bf.current # << >> THEN << >> ELSE @,
                           !.current_bytes = IF bf.current # << >> THEN 0 ELSE @,
                           !.i = @ + 1]
           ELSE IF NeedsFlush(bf.current, bf.current_bytes, size)
           THEN [bf EXCEPT !.batches = flushed,
                           !.current = <<bf.i>>,
                           !.current_bytes = size,
                           !.i = @ + 1]
           ELSE [bf EXCEPT !.current = Append(@, bf.i),
                           !.current_bytes = @ + size,
                           !.i = @ + 1]
  /\ UNCHANGED notBatch

\* "if current: batches.append(current)" and the return
BfEnd ==
  /\ bf.pc = "loop"
  /\ bf.i > Len(bf.files)
  /\ bf' = [bf EXCEPT !.pc = "done",
                      !.batches = IF bf.current # << >> THEN Append(@, bf.current)
                                  ELSE @]
  /\ UNCHANGED notBatch

NextBatch == BfCall \/ BfFile \/ BfEnd

SpecBatch == InitScan /\ [][NextBatch]_vars

RECURSIVE BfFlatten(_)
BfFlatten(bs) == IF bs = << >> THEN << >> ELSE Head(bs) \o BfFlatten(Tail(bs))

RECURSIVE BfBytes(_, _)
BfBytes(files, b) == IF b = << >> THEN 0 ELSE files[Head(b)] + BfBytes(files, Tail(b))

\* C31: the batches returned by _batch_files_by_size(files, 100, 50 MiB)
\* are the listing cut into consecutive non-empty pieces, in order; no
\* batch has more than 100 files; a batch's sizes total at most 50 MiB
\* unless it is a single file larger than that; and every file larger than
\* 50 MiB is alone in its batch.
C31_BatchesPartitionWithinLimits ==
  bf.pc = "done" =>
    /\ BfFlatten(bf.batches) = [k \in 1..Len(bf.files) |-> k]
    /\ \A j \in 1..Len(bf.batches) :
         LET b == bf.batches[j] IN
           /\ b # << >>
           /\ Len(b) <= BATCH_MAX_COUNT
           /\ BfBytes(bf.files, b) <= BATCH_MAX_BYTES
                \/ (Len(b) = 1 /\ bf.files[b[1]] > BATCH_MAX_BYTES)
           /\ \A k \in 1..Len(b) : bf.files[b[k]] > BATCH_MAX_BYTES => Len(b) = 1

C31_Witness ==
  /\ bf.pc = "done"
  /\ Len(bf.files) = ManyFiles + 1
  /\ bf.files[ManyFiles + 1] > BATCH_MAX_BYTES
  /\ Len(bf.batches) = 4
  /\ Len(bf.batches[1]) = BATCH_MAX_COUNT
  /\ bf.batches[4] = <<ManyFiles + 1>>

\* ------------------------------------------------------------------
\* P0: the directories of a level are inserted before its children start
\* ------------------------------------------------------------------

\* the strict ancestor directories of p other than the scan root
AncestorDirs(p) == {SubSeq(p, 1, k) : k \in 1..(Len(p) - 1)}

\* C32: in every reachable state of a scan, a vfs_files or vfs_directories
\* row for path p under container c comes with a vfs_directories row under
\* c for every strict ancestor directory of p other than the scan root.
C32_AncestorsBeforeDescendants ==
  \A r \in Rows(vfs_files) \cup Rows(vfs_directories) :
    \A a \in AncestorDirs(r.path) :
      \E d \in Rows(vfs_directories) :
        d.container_hash = r.container_hash /\ d.path = a

C32_Witness ==
  /\ \E d \in Rows(vfs_directories) :
       d.container_hash = "h2" /\ d.path = <<"d", "e">>
  /\ \E r \in Rows(vfs_files) : r.container_hash = "" /\ r.path = <<"d", "b">>

\* ------------------------------------------------------------------
\* page ids of text_content: insert_text_chunks and the email parser's
\* loop over the text/plain parts.  A text is the number of chunks
\* _split_utf8_bytes_to_chunks cuts it into; 0 is a text whose stripped
\* bytes are shorter than 2 or that yields no chunk.
\* ------------------------------------------------------------------

MaxParts == 3

MaxPartChunks == 2

PartTexts == UNION {[1..k -> 0..MaxPartChunks] : k \in 0..MaxParts}

\* (mutant of rows_page: page ids counted from 1)
rows_page_FromOne(start_page_id, n) == (start_page_id + 1)..(start_page_id + n)

\* list(range(start_page_id, start_page_id + len(chunks)))
rows_page(start_page_id, n) == start_page_id..(start_page_id + n - 1)

\* the rows one insert_text_chunks call adds
insert_text_chunks(extracted_by, start_page_id, n) ==
  {[extracted_by |-> extracted_by, page_id |-> i] : i \in rows_page(start_page_id, n)}

\* parse_text, parse_tika, parse_ocr, the pdf text extraction: one call
\* with the default start_page_id
PgSingle ==
  /\ NothingMore
  /\ \E e \in {"raw_text", "extractous", "easyocr", "qpdf"}, n \in 0..MaxPartChunks :
       /\ page_rows' = AddRows(page_rows, insert_text_chunks(e, 0, n))
       /\ pg' = [IdlePg EXCEPT !.pc = "done", !.extracted_by = e, !.texts = <<n>>,
                               !.k = 1, !.total = n]
  /\ UNCHANGED notPages

\* parse_email_extract_text_headers has collected the text/plain parts
PgEmail ==
  /\ NothingMore
  /\ \E texts \in PartTexts :
       pg' = [IdlePg EXCEPT !.pc = IF texts # << >> THEN "loop" ELSE "done",
                            !.extracted_by = "email_parser", !.texts = texts]
  /\ UNCHANGED page_rows
  /\ UNCHANGED notPages

\* one iteration of "for t in texts"
PgPart ==
  /\ pg.pc = "loop"
  /\ pg.k < Len(pg.texts)
  /\ LET n == pg.texts[pg.k + 1]
     IN /\ page_rows' = AddRows(page_rows,
                              insert_text_chunks(pg.extracted_by, pg.page_id, n))
        /\ pg' = [pg EXCEPT !.k = @ + 1, !.total = @ + n, !.page_id = pg.total + n]
  /\ UNCHANGED notPages

PgReturn ==
  /\ pg.pc = "loop"
  /\ pg.k = Len(pg.texts)
  /\ pg' = [pg EXCEPT !.pc = "done"]
  /\ UNCHANGED page_rows
  /\ UNCHANGED notPages

NextPages == PgSingle \/ PgEmail \/ PgPart \/ PgReturn

SpecPages == InitScan /\ [][NextPages]_vars

\* C33: once a parser has written the text of a file, the page ids of its
\* text_content rows for the (file_hash, extracted_by) are exactly 0..n-1,
\* each once, n being the number of rows: for a single insert_text_chunks
\* call and for the email parser's calls over its text/plain parts, parts
\* without chunks included.
C33_PageIdsDense ==
  pg.pc = "done" =>
    LET n == BagCardinality(page_rows)
    IN /\ {r.page_id : r \in Rows(page_rows)} = 0..(n - 1)
       /\ \A r \in Rows(page_rows) :
            r.extracted_by = pg.extracted_by /\ CopiesIn(r, page_rows) = 1

C33_Witness ==
  /\ pg.pc = "done"
  /\ pg.extracted_by = "email_parser"
  /\ pg.texts = <<MaxPartChunks, 0, 1>>
  /\ BagCardinality(page_rows) = MaxPartChunks + 1

\* ------------------------------------------------------------------
\* format_temporal_exception_chain.  The exception objects are 1..MaxExcs,
\* err is object 1 and None is NoExc; id(cur) is the object.  cause[e] is
\* e.__cause__; a Temporal error's attribute "cause" returns its __cause__
\* and other exceptions have no such attribute; tb[e] says that e was
\* raised, so that e.__traceback__ is not None.
\* ------------------------------------------------------------------

MaxExcs == 3

Excs == 1..MaxExcs

NoExc == 0

\* _safe_get(cur, "cause")
safe_get_cause(f, e) == IF f.temporal[e] THEN f.cause[e] ELSE NoExc

\* the exceptions traceback.format_exception (chain=True) prints before e:
\* those reached from e over __cause__, each once
RECURSIVE Chained(_, _, _)
Chained(f, e, found) ==
  LET c == f.cause[e]
  IN IF c = NoExc \/ c \in found THEN found
     ELSE Chained(f, c, found \cup {c})

FmCall ==
  /\ NothingMore
  /\ \E cause \in [Excs -> Excs \cup {NoExc}], temporal \in [Excs -> BOOLEAN],
        tb \in [Excs -> BOOLEAN] :
       fm' = [pc |-> "loop", cause |-> cause, temporal |-> temporal, tb |-> tb,
              cur |-> 1, seen |-> {}, level |-> 0,
              entries |-> [e \in Excs |-> 0], chained |-> [e \in Excs |-> 0]]
  /\ UNCHANGED notFormat

\* one pass of "while cur is not None and id(cur) not in seen"
FmLevel ==
  /\ fm.pc = "loop"
  /\ fm.cur # NoExc /\ fm.cur \notin fm.seen
  /\ LET cur == fm.cur
         printed == IF fm.tb[cur] THEN Chained(fm, cur, {cur}) \ {cur} ELSE {}
     IN fm' = [fm EXCEPT !.seen = @ \cup {cur},
                         !.entries[cur] = @ + 1,
                         !.chained = [e \in Excs |-> IF e \in printed THEN @[e] + 1
                                                     ELSE @[e]],
                         !.cur = safe_get_cause(fm, cur),
                         !.level = @ + 1]
  /\ UNCHANGED notFormat

FmReturn ==
  /\ fm.pc = "loop"
  /\ fm.cur = NoExc \/ fm.cur \in fm.seen
  /\ fm' = [fm EXCEPT !.pc = "done"]
  /\ UNCHANGED notFormat

NextFormat == FmCall \/ FmLevel \/ FmReturn

SpecFormat == InitScan /\ [][NextFormat]_vars

\* how often the returned text renders exception e: as a [level n] entry
\* of its own, and as a chained exception in another entry's traceback
Rendered(e) == fm.entries[e] + fm.chained[e]

\* the loop makes at most one pass per exception object, whatever the links
FormatterLoopBounded ==
  fm.pc # "idle" =>
    /\ fm.level = Cardinality(fm.seen)
    /\ \A e \in Excs : fm.entries[e] <= 1

\* C34: the formatter terminates on every exception chain, cyclic cause
\* links included (its loop makes no more passes than there are exception
\* objects), and renders each distinct exception object at most once.
C34_TerminatesAndRendersOnce ==
  fm.pc # "idle" =>
    /\ fm.level <= MaxExcs
    /\ \A e \in Excs : Rendered(e) <= 1

\* a cyclic chain of two Temporal errors has been formatted
C34_Witness ==
  /\ fm.pc = "done"
  /\ fm.temporal[1] /\ fm.temporal[2]
  /\ fm.cause[1] = 2 /\ fm.cause[2] = 1
  /\ fm.level = 2

\* ------------------------------------------------------------------
\* what P3 parses and what P4 indexes for a plan of processing_plans
\* ------------------------------------------------------------------

\* get_plan_items_metadata: the item_hash of the plan's processing_plan_hits rows
PlanItemsParsed(p) ==
  {r.item_hash : r \in {x \in Rows(processing_plan_hits) : x.plan_hash = p}}

\* fetch_plan_hashes: the item_hashes of the plan's first processing_plans
\* row (the rows of one plan_hash hold the same hashes)
PlanItemsIndexed(p) ==
  UNION {r.item_hashes : r \in {x \in Rows(processing_plans) : x.plan_hash = p}}

\* the plans ExecuteSinglePlan can be started for: list_pending_plans reads
\* processing_plans
ListedPlans == {r.plan_hash : r \in Rows(processing_plans)}

\* C35: whenever compute_plans is not running (it has returned, or has
\* failed for good after attempts interrupted between the two inserts of a
\* plan), every plan that can be executed has the same item hashes in
\* processing_plan_hits, which P3 parses, as in processing_plans.item_hashes,
\* which P4 indexes.
C35_ParsedEqualsIndexed ==
  cp.pc \in {"idle", "no-op", "done", "failed"} =>
    \A p \in ListedPlans : PlanItemsParsed(p) = PlanItemsIndexed(p)

\* compute_plans has completed at a retry and a plan has its hits
C35_Witness ==
  /\ cp.pc = "done"
  /\ cp.attempt > 1
  /\ \E p \in ListedPlans :
       PlanItemsParsed(p) # {} /\ PlanItemsParsed(p) = PlanItemsIndexed(p)

\* ------------------------------------------------------------------
\* the commit of a plan: the rows of processing_plan_finished
\* ------------------------------------------------------------------

FinishedRows == BagCardinality(processing_plan_finished)

\* C36: under worker crashes and activity retries processing_plan_finished
\* holds at most one row of the plan, and once the plan has a finished row
\* nothing of it is downloaded, parsed or indexed again.
C36_CommittedAtMostOnce ==
  /\ FinishedRows <= 1
  /\ PlanFinished => esp.pc \in {"mark", "mark_ret", "finished", "failed"}

\* the plan was committed by a second attempt of mark_plan_finished, the
\* first having died before its insert
C36_Witness ==
  /\ esp.pc = "finished"
  /\ esp.attempt = 2
  /\ FinishedRows = 1

\* ------------------------------------------------------------------
\* ArchiveExtractionAndScan on the archive h2 (the email, pdf and video
\* workflows have the same three last steps): extract to a temp directory,
\* scan it with a HandleFolders child, cleanup_temp_dir.  The child and its
\* descendants are the HandleFolders runs of the tree "h2" above.
\* ------------------------------------------------------------------

Archive == "h2"

ArchiveNodes == {n \in Nodes : n[1] = Archive}

\* the workflow starts; extract_archive_to_temp is scheduled
CtrStart ==
  /\ ctr.pc = "idle"
  /\ ctr' = [ctr EXCEPT !.pc = "extract"]
  /\ UNCHANGED notContainer

\* extract_archive_to_temp and record_archive_container return
CtrExtracted ==
  /\ ctr.pc = "extract"
  /\ ctr' = [ctr EXCEPT !.pc = "scan", !.out_dir = "full", !.base = scanRuns[Archive]]
  /\ UNCHANGED notContainer

\* one of the two activities fails for good: the workflow fails
CtrActivityFail ==
  /\ ctr.pc \in {"extract", "cleanup"}
  /\ ctr' = [ctr EXCEPT !.pc = "failed"]
  /\ UNCHANGED notContainer

\* execute_child_workflow(HandleFolders.run, folder_paths=["/"], ...)
CtrScan ==
  /\ ctr.pc = "scan"
  /\ scanRuns[Archive] = ctr.base
  /\ ScanStart(Archive)

ScanStarted == scanRuns[Archive] > ctr.base

\* (mutant of ScanCompleted: the child is started and not awaited)
ScanCompleted_NotAwaited == ScanStarted

\* the await of the HandleFolders child returns
ScanCompleted == ScanStarted /\ hf[RootNode(Archive)] = "done"

CtrScanned ==
  /\ ctr.pc = "scan"
  /\ ScanCompleted
  /\ ctr' = [ctr EXCEPT !.pc = "cleanup"]
  /\ UNCHANGED notContainer

\* the await of the child raises: the workflow fails, without cleanup
CtrScanFailed ==
  /\ ctr.pc = "scan"
  /\ ScanStarted /\ hf[RootNode(Archive)] = "failed"
  /\ ctr' = [ctr EXCEPT !.pc = "failed"]
  /\ UNCHANGED notContainer

\* cleanup_temp_dir: shutil.rmtree(out_dir)
CtrCleanup ==
  /\ ctr.pc = "cleanup"
  /\ ctr' = [ctr EXCEPT !.pc = "done", !.out_dir = "removed"]
  /\ UNCHANGED notContainer

NextContainer ==
  \/ CtrStart
  \/ CtrExtracted
  \/ CtrActivityFail
  \/ CtrScan
  \/ CtrScanned
  \/ CtrScanFailed
  \/ CtrCleanup
  \/ \E n \in ArchiveNodes :
       \/ DirsQuery(n) \/ DirsInsert(n) \/ DirsReturn(n) \/ DirsCrash(n)
       \/ HFSpawn(n) \/ HFDone(n) \/ HFFail(n)
       \/ IngestQueryVfs(n) \/ IngestQueryBlobs(n) \/ IngestQueryValues(n)
       \/ IngestInsertBlobs(n) \/ IngestInsertValues(n) \/ IngestInsertVfs(n)
       \/ IngestReturn(n) \/ IngestCrash(n)

SpecContainer == InitExec /\ [][NextContainer]_vars

\* a HandleFolders run, an insert_vfs_directories or an ingest_files_batch
\* of the archive's tree is under way
ScanUnderWay ==
  \E n \in ArchiveNodes :
    \/ hf[n] \in {"dirs", "spawn", "wait"}
    \/ dirAct[n].pc \in {"query", "insert", "return"}
    \/ ing[n].pc \notin {"idle", "done", "failed"}

\* C37: cleanup_temp_dir is not started before the HandleFolders child that
\* scans the temp directory has completed, and with it every nested
\* HandleFolders and HandleFiles child and every ingest_files_batch.
C37_TempDirOutlivesScan ==
  ctr.pc \in {"cleanup", "done"} \/ ctr.out_dir = "removed" =>
    /\ ScanStarted
    /\ ~ScanUnderWay
    /\ \A n \in ArchiveNodes : hf[n] = "done" /\ ing[n].pc \in {"idle", "done"}

\* the temp directory has been removed after a scan that wrote the
\* archive's file and nested directory
C37_Witness ==
  /\ ctr.pc = "done"
  /\ ctr.out_dir = "removed"
  /\ \E r \in Rows(vfs_files) :
       r.container_hash = Archive /\ r.path = <<"d", "e", "g">>
  /\ \E d \in Rows(vfs_directories) :
       d.container_hash = Archive /\ d.path = <<"d", "e">>

\* ------------------------------------------------------------------
\* the scratch directory of a plan execution
\* ------------------------------------------------------------------

\* download_plan_files has returned (it made <base>/<dataset>/<plan_hash>):
\* ProcessItemsBatched was started
ScratchCreated == pib.pc # "idle"

\* cleanup_plan_dir has returned: IndexDatasetPlan was started
CleanupRan == idx.pc # "idle"

\* C38: whenever ExecuteSinglePlan has ended after download_plan_files
\* created the scratch directory, with success or by the failure of a later
\* step, cleanup_plan_dir has been run for the plan.
C38_CleanupOnEveryEnd ==
  esp.pc \in {"finished", "failed"} /\ ScratchCreated => CleanupRan

\* the plan has succeeded and its scratch directory was removed on the way
C38_Witness ==
  /\ esp.pc = "finished"
  /\ ScratchCreated
  /\ CleanupRan

\* ------------------------------------------------------------------
\* a failing plan within an ExecutePlans run
\* ------------------------------------------------------------------

FinishedPlans == {f.plan_hash : f \in Rows(processing_plan_finished)}

\* the plans whose ExecuteSinglePlan was started and failed
FailedPlans ==
  {ph \in {PlanOf(k) : k \in epWorld.fragile} :
     CopiesIn(ph, started) > 0 /\ ph \notin FinishedPlans}

\* C39: if ExecuteSinglePlan has failed for a plan of an ExecutePlans run,
\* then, once the run has ended, every other plan that was pending has been
\* executed and has its processing_plan_finished row (the later batches and
\* the continuation have taken place).
C39_PlansIndependent ==
  (ep = << >> /\ epOut.ret # "none" /\ FailedPlans # {}) =>
    \A p \in Rows(processing_plans) :
      p.plan_hash \in FailedPlans \/ p.plan_hash \in FinishedPlans

\* the first of many pending plans has failed and the run has ended
C39_Witness ==
  /\ ep = << >>
  /\ epOut.ret = "error"
  /\ epWorld.plans = ManyPlans
  /\ FailedPlans = {PlanOf(1)}

\* ------------------------------------------------------------------
\* TextContentIterator.__iter__.  The rows that match the filters are
\* 1..rows in the order of the query's ORDER BY; the table does not change
\* while it is iterated.  o0 and t0 are current_offset and total_processed
\* as __init__ or _load_progress left them.
\* ------------------------------------------------------------------

MaxTextRows == 5

MaxBatchSize == 3

MaxStartOffset == 6

\* _build_query: the LIMIT and OFFSET of the query text
build_query(f) == [limit |-> f.batch_size, offset |-> f.current_offset]

\* client.query(query).result_rows: the rows at the positions the query
\* asks for
result_rows(rows, q) ==
  [k \in 1..(IF q.offset >= rows THEN 0
             ELSE IF rows - q.offset < q.limit THEN rows - q.offset
             ELSE q.limit) |-> q.offset + k]

\* (mutant of advance: the offset moves by the batch size asked for)
advance_ByLimit(counter, batch, batch_size) == counter + batch_size

\* self.current_offset += len(batch); self.total_processed += len(batch)
advance(counter, batch, batch_size) == counter + Len(batch)

\* iter() on a connected iterator
TciStart ==
  /\ NothingMore
  /\ \E rows \in 0..MaxTextRows, batch_size \in 1..MaxBatchSize,
        o0 \in 0..MaxStartOffset, t0 \in {0, 1} :
       tci' = [IdleTci EXCEPT !.pc = "query", !.rows = rows, !.batch_size = batch_size,
                              !.o0 = o0, !.t0 = t0,
                              !.current_offset = o0, !.total_processed = t0]
  /\ UNCHANGED notIter

\* one pass of "while True": the query, then break on an empty result or
\* the update of the progress and the yield
TciQuery ==
  /\ tci.pc = "query"
  /\ LET query == build_query(tci)
         batch == result_rows(tci.rows, query)
     IN tci' = IF batch = << >>
                 THEN [tci EXCEPT !.pc = "done", !.queries = Append(@, query)]
                 ELSE [tci EXCEPT !.pc = "yielded",
                                  !.queries = Append(@, query),
                                  !.batches = Append(@, batch),
                                  !.current_offset = advance(@, batch, tci.batch_size),
                                  !.total_processed = advance(@, batch, tci.batch_size)]
  /\ UNCHANGED notIter

\* the query raises: progress is saved and the exception is raised again
TciRaise ==
  /\ tci.pc = "query"
  /\ tci' = [tci EXCEPT !.pc = "raised"]
  /\ UNCHANGED notIter

\* the consumer asks for the next batch
TciResume ==
  /\ tci.pc = "yielded"
  /\ tci' = [tci EXCEPT !.pc = "query"]
  /\ UNCHANGED notIter

NextIter == TciStart \/ TciQuery \/ TciRaise \/ TciResume

SpecIter == InitScan /\ [][NextIter]_vars

RECURSIVE TciFlatten(_)
TciFlatten(bs) == IF bs = << >> THEN << >> ELSE Head(bs) \o TciFlatten(Tail(bs))

RowsYielded == Len(TciFlatten(tci.batches))

\* C40: iterating from offset o0 yields the successive non-empty query
\* results and stops at the first empty one; after each batch
\* current_offset is o0 plus the rows yielded so far and total_processed
\* has grown by as much; every query has LIMIT batch_size and OFFSET the
\* current offset, so the batches are the rows after position o0 in order,
\* without overlap or gap.
C40_IterationOffsets ==
  tci.pc # "idle" =>
    /\ tci.current_offset = tci.o0 + RowsYielded
    /\ tci.total_processed = tci.t0 + RowsYielded
    /\ \A k \in 1..Len(tci.queries) :
         /\ tci.queries[k].limit = tci.batch_size
         /\ tci.queries[k].offset =
              tci.o0 + Len(TciFlatten(SubSeq(tci.batches, 1, k - 1)))
    /\ \A k \in 1..Len(tci.batches) : tci.batches[k] # << >>
    /\ TciFlatten(tci.batches) = [k \in 1..RowsYielded |-> tci.o0 + k]
    /\ tci.pc = "done" =>
         /\ Len(tci.queries) = Len(tci.batches) + 1
         /\ tci.current_offset >= tci.rows
         /\ tci.o0 < tci.rows => tci.current_offset = tci.rows

\* two batches, the second one short, then the empty result
C40_Witness ==
  /\ tci.pc = "done"
  /\ tci.o0 = 1
  /\ tci.batch_size = MaxBatchSize
  /\ Len(tci.batches) = 2
  /\ Len(tci.batches[2]) < tci.batch_size
  /\ Len(tci.queries) = 3

====
